---- MODULE Spec2Model ----
(***************************************************************************)
(* vmcli (src/main.rs): the ec2 resource reconciler (`up`: find/ensure     *)
(* over VPC, subnet, internet gateway, route table, security group,        *)
(* keypair, instance) and the health verdict synthesis                     *)
(* (summarize_health).                                                     *)
(*                                                                         *)
(* The provider (the `aws` CLI behind AwsCli::run / run_output) is the     *)
(* environment.  Its state is the set of resources it holds; each call of  *)
(* the program is one atomic step against that state.  Every call may      *)
(* also fail for a reason the program does not inspect (CallFails); such   *)
(* a failure leaves the provider state as it was.                          *)
(***************************************************************************)
EXTENDS Integers, FiniteSets, Sequences, TLC

\* ---------------------------------------------------------------- bounds
MaxRuns == 3
MaxExternal == 2
MaxGroups == 2
MaxPermissions == 2
MaxPrunes == 2
MaxLaunches == 2

Runners == {1, 2}
Clusters == {"a", "b"}
Names == {"n1"}

\* ---------------------------------------------------------------- state
VARIABLES
    vpcs,        \* provider: VPCs            [id, Name, Cluster]
    subnets,     \* provider: subnets         [id, Name, Cluster, vpc, map_public_ip]
    igws,        \* provider: gateways        [id, Name, Cluster, attachments]
    rts,         \* provider: route tables    [id, Name, Cluster, vpc, route, associations]
    sgs,         \* provider: security groups [id, Name, Cluster, vpc, ingress]
    keys,        \* provider: key pair names
    instances,   \* provider: instances       [id, Name, Cluster, state, subnet, sg]
    nextId,      \* provider: next identifier to assign, per kind
    run,         \* per process: position in run_aws_up and its let-bindings
    runs,        \* number of `up` invocations started so far
    ensured,     \* history: id returned by the latest successful ensure, per cluster and kind
    external,    \* number of resources created outside the program so far
    aborted,     \* history: cluster and position of the latest `up` run that aborted
    health,      \* inputs and result of summarize_health
    prune        \* the process of run_aws_prune

vars == <<vpcs, subnets, igws, rts, sgs, keys, instances, nextId,
          run, runs, ensured, external, aborted, health, prune>>

provider == <<vpcs, subnets, igws, rts, sgs, keys, instances, nextId>>

Kinds == {"vpc", "subnet", "igw", "rt", "sg"}

NoId == 0

NON_TERMINATED_STATES == {"pending", "running", "stopping", "stopped", "shutting-down"}

SgPorts == <<22, 80, 443, 9090, 9091, 9092>>

\* Option<T> is the set of at most one T.
None == {}
Some(x) == {x}

Ok(v) == [ok |-> TRUE, value |-> v]
Err(e) == [ok |-> FALSE, error |-> e]

\* What a handler did: the provider calls it issued in order, what it
\* returned, and the provider's collection after it.
Outcome(calls, result, after) == [calls |-> calls, result |-> result, after |-> after]

\* ------------------------------------------------- identity conventions
resource_name(cluster, suffix) == <<cluster, suffix>>

tag_filters_swapped(name, cluster) == [Name |-> cluster, Cluster |-> name]

tag_filters(name, cluster) == [Name |-> name, Cluster |-> cluster]

\* describe-* with the two tag filters: the provider returns the resources
\* carrying both tags.
Describe(S, filters) ==
    {x \in S : x.Name = filters.Name /\ x.Cluster = filters.Cluster}

MatchLen_first(m, what) ==
    IF Cardinality(m) = 0 THEN Ok(None) ELSE Ok(Some(CHOOSE x \in m : TRUE))

MatchLen_newest(m, what) ==
    IF Cardinality(m) = 0 THEN Ok(None)
    ELSE Ok(Some(CHOOSE x \in m : \A y \in m : y.id <= x.id))

\* match result.len() { 0 => Ok(None), 1 => Ok(Some(..)), _ => bail!(..) }
MatchLen(m, what) ==
    IF Cardinality(m) = 0 THEN Ok(None)
    ELSE IF Cardinality(m) = 1 THEN Ok(Some(CHOOSE x \in m : TRUE))
    ELSE Err(what)

find_vpc_none(cluster) == Ok(None)

find_vpc(cluster) ==
    MatchLen(Describe(vpcs, tag_filters(resource_name(cluster, "vpc"), cluster)),
             "multiple VPCs found")

find_subnet(cluster) ==
    MatchLen(Describe(subnets, tag_filters(resource_name(cluster, "subnet"), cluster)),
             "multiple subnets found")

find_internet_gateway(cluster) ==
    MatchLen(Describe(igws, tag_filters(resource_name(cluster, "igw"), cluster)),
             "multiple internet gateways found")

find_route_table(cluster) ==
    MatchLen(Describe(rts, tag_filters(resource_name(cluster, "rt"), cluster)),
             "multiple route tables found")

find_security_group(cluster) ==
    MatchLen(Describe(sgs, tag_filters(resource_name(cluster, "sg"), cluster)),
             "multiple security groups found")

\* ------------------------------------------------------ process control
IdleRun ==
    [pc |-> "idle", cluster |-> "a", name |-> "n1",
     vpc_id |-> NoId, subnet_id |-> NoId, igw_id |-> NoId,
     route_table_id |-> NoId, sg_id |-> NoId,
     port |-> 1, instance_id |-> NoId, err |-> "none"]

NetworkPcs ==
    {"find_vpc", "create_vpc", "find_subnet", "create_subnet", "modify_subnet",
     "find_igw", "create_igw", "attach_igw", "find_rt", "create_rt",
     "default_route", "association", "find_sg", "create_sg", "authorize", "key_exists", "import_key"}

CallPcs ==
    {"banner", "dup_check"} \cup NetworkPcs \cup
    {"resolve_ami", "launch", "wait_running", "fetch_ip", "print_status"}

Goto(r, p) == run' = [run EXCEPT ![r].pc = p]

Bail_carry_on(r, e) ==
    /\ run' = [run EXCEPT ![r].err = e]
    /\ aborted' = [cluster |-> run[r].cluster, pc |-> run[r].pc]

\* An Err propagated by `?` ends run_aws_up: nothing is rolled back.
Bail(r, e) ==
    /\ run' = [run EXCEPT ![r] = [IdleRun EXCEPT !.pc = "failed", !.err = e,
                                                 !.cluster = run[r].cluster,
                                                 !.name = run[r].name]]
    /\ aborted' = [cluster |-> run[r].cluster, pc |-> run[r].pc]

Returned(r, kind, id) ==
    ensured' = [ensured EXCEPT ![run[r].cluster][kind] = id]

\* ------------------------------------------------------------ run_aws_up
\* A new invocation of `vmcli ec2 up --cluster cl nm`; the process of the
\* previous invocation has exited.
UpStart(r, cl, nm, limit) ==
    /\ run[r].pc \in {"idle", "done", "failed"}
    /\ runs < limit
    /\ runs' = runs + 1
    /\ run' = [run EXCEPT ![r] = [IdleRun EXCEPT !.pc = "banner", !.cluster = cl, !.name = nm]]
    /\ UNCHANGED <<provider, ensured, aborted, health, external, prune>>

\* Any provider call exits non-zero (or cannot be executed) for a reason the
\* caller does not reclassify: aws.run bails, run_output callers bail.
CallFails(r) ==
    /\ run[r].pc \in CallPcs
    /\ Bail(r, "provider")
    /\ UNCHANGED <<provider, runs, ensured, health, external, prune>>

PrintBanner_skips_check(r) ==
    /\ run[r].pc = "banner"
    /\ Goto(r, "find_vpc")
    /\ UNCHANGED <<provider, runs, ensured, aborted, health, external, prune>>

PrintBanner(r) ==
    /\ run[r].pc = "banner"
    /\ Goto(r, "dup_check")
    /\ UNCHANGED <<provider, runs, ensured, aborted, health, external, prune>>

describe_instances_named_running_only(cluster, name) ==
    {i \in instances : i.Name = name /\ i.Cluster = cluster /\ i.state = "running"}

describe_instances_named_no_pending(cluster, name) ==
    {i \in instances : /\ i.Name = name
                       /\ i.Cluster = cluster
                       /\ i.state \in NON_TERMINATED_STATES \ {"pending"}}

describe_instances_named(cluster, name) ==
    {i \in instances : /\ i.Name = name
                       /\ i.Cluster = cluster
                       /\ i.state \in NON_TERMINATED_STATES}

ensure_no_duplicate_instance(r) ==
    /\ run[r].pc = "dup_check"
    /\ IF describe_instances_named(run[r].cluster, run[r].name) # {}
       THEN Bail(r, "instance name already exists")
       ELSE Goto(r, "find_vpc") /\ UNCHANGED aborted
    /\ UNCHANGED <<provider, runs, ensured, health, external, prune>>

\* ---- ensure_vpc
EnsureVpcFind(r) ==
    /\ run[r].pc = "find_vpc"
    /\ LET f == find_vpc(run[r].cluster) IN
         IF ~f.ok THEN Bail(r, f.error) /\ UNCHANGED ensured
         ELSE IF f.value # None
         THEN /\ run' = [run EXCEPT ![r].pc = "find_subnet",
                                    ![r].vpc_id = (CHOOSE x \in f.value : TRUE).id]
              /\ Returned(r, "vpc", (CHOOSE x \in f.value : TRUE).id)
              /\ UNCHANGED aborted
         ELSE Goto(r, "create_vpc") /\ UNCHANGED <<ensured, aborted>>
    /\ UNCHANGED <<provider, runs, health, external, prune>>

EnsureVpcCreate(r) ==
    /\ run[r].pc = "create_vpc"
    /\ LET id == nextId["vpc"] IN
         /\ vpcs' = vpcs \cup {[id |-> id,
                                Name |-> resource_name(run[r].cluster, "vpc"),
                                Cluster |-> run[r].cluster]}
         /\ nextId' = [nextId EXCEPT !["vpc"] = id + 1]
         /\ run' = [run EXCEPT ![r].pc = "find_subnet", ![r].vpc_id = id]
         /\ Returned(r, "vpc", id)
    /\ UNCHANGED <<subnets, igws, rts, sgs, keys, instances, runs, aborted, health, external, prune>>

\* ---- ensure_subnet
EnsureSubnetFind(r) ==
    /\ run[r].pc = "find_subnet"
    /\ LET f == find_subnet(run[r].cluster) IN
         IF ~f.ok THEN Bail(r, f.error)
         ELSE IF f.value # None
         THEN /\ run' = [run EXCEPT ![r].pc = "modify_subnet",
                                    ![r].subnet_id = (CHOOSE x \in f.value : TRUE).id]
              /\ UNCHANGED aborted
         ELSE Goto(r, "create_subnet") /\ UNCHANGED aborted
    /\ UNCHANGED <<provider, runs, ensured, health, external, prune>>

\* create-subnet --cidr-block 10.0.1.0/24: the provider refuses a block the
\* VPC already has a subnet for.
EnsureSubnetCreate(r) ==
    /\ run[r].pc = "create_subnet"
    /\ IF \E s \in subnets : s.vpc = run[r].vpc_id
       THEN Bail(r, "InvalidSubnet.Conflict") /\ UNCHANGED <<subnets, nextId>>
       ELSE LET id == nextId["subnet"] IN
            /\ subnets' = subnets \cup {[id |-> id,
                                         Name |-> resource_name(run[r].cluster, "subnet"),
                                         Cluster |-> run[r].cluster,
                                         vpc |-> run[r].vpc_id,
                                         map_public_ip |-> FALSE]}
            /\ nextId' = [nextId EXCEPT !["subnet"] = id + 1]
            /\ run' = [run EXCEPT ![r].pc = "modify_subnet", ![r].subnet_id = id]
            /\ UNCHANGED aborted
    /\ UNCHANGED <<vpcs, igws, rts, sgs, keys, instances, runs, ensured, health, external, prune>>

EnsureSubnetModify(r) ==
    /\ run[r].pc = "modify_subnet"
    /\ subnets' = {IF s.id = run[r].subnet_id THEN [s EXCEPT !.map_public_ip = TRUE] ELSE s
                   : s \in subnets}
    /\ Goto(r, "find_igw")
    /\ Returned(r, "subnet", run[r].subnet_id)
    /\ UNCHANGED <<vpcs, igws, rts, sgs, keys, instances, nextId, runs, aborted, health, external, prune>>

\* ---- ensure_internet_gateway
IgwAttached_never(igw, vpc_id) == FALSE

\* attachments.iter().any(|a| a.vpc_id == vpc_id), false when there is no list
IgwAttached(igw, vpc_id) == vpc_id \in igw.attachments

EnsureIgwFind(r) ==
    /\ run[r].pc = "find_igw"
    /\ LET f == find_internet_gateway(run[r].cluster) IN
         IF ~f.ok THEN Bail(r, f.error) /\ UNCHANGED ensured
         ELSE IF f.value # None
         THEN LET existing == CHOOSE x \in f.value : TRUE IN
              IF IgwAttached(existing, run[r].vpc_id)
              THEN /\ run' = [run EXCEPT ![r].pc = "find_rt", ![r].igw_id = existing.id]
                   /\ Returned(r, "igw", existing.id)
                   /\ UNCHANGED aborted
              ELSE /\ run' = [run EXCEPT ![r].pc = "attach_igw", ![r].igw_id = existing.id]
                   /\ UNCHANGED <<ensured, aborted>>
         ELSE Goto(r, "create_igw") /\ UNCHANGED <<ensured, aborted>>
    /\ UNCHANGED <<provider, runs, health, external, prune>>

EnsureIgwCreate(r) ==
    /\ run[r].pc = "create_igw"
    /\ LET id == nextId["igw"] IN
         /\ igws' = igws \cup {[id |-> id,
                                Name |-> resource_name(run[r].cluster, "igw"),
                                Cluster |-> run[r].cluster,
                                attachments |-> {}]}
         /\ nextId' = [nextId EXCEPT !["igw"] = id + 1]
         /\ run' = [run EXCEPT ![r].pc = "attach_igw", ![r].igw_id = id]
    /\ UNCHANGED <<vpcs, subnets, rts, sgs, keys, instances, runs, ensured, aborted, health, external, prune>>

\* attach-internet-gateway: the provider refuses when the gateway already
\* has an attachment or the VPC already has a gateway.
AttachRefused(igw_id, vpc_id) ==
    \/ \E g \in igws : g.id = igw_id /\ g.attachments # {}
    \/ \E g \in igws : vpc_id \in g.attachments

EnsureIgwAttach(r) ==
    /\ run[r].pc = "attach_igw"
    /\ IF AttachRefused(run[r].igw_id, run[r].vpc_id)
       THEN Bail(r, "Resource.AlreadyAssociated") /\ UNCHANGED <<igws, ensured>>
       ELSE /\ igws' = {IF g.id = run[r].igw_id
                        THEN [g EXCEPT !.attachments = @ \cup {run[r].vpc_id}] ELSE g
                        : g \in igws}
            /\ Goto(r, "find_rt")
            /\ Returned(r, "igw", run[r].igw_id)
            /\ UNCHANGED aborted
    /\ UNCHANGED <<vpcs, subnets, rts, sgs, keys, instances, nextId, runs, health, external, prune>>

\* A gateway tagged for a cluster as create-internet-gateway tags it.
Gateway(id, cl, attachments) ==
    [id |-> id, Name |-> resource_name(cl, "igw"), Cluster |-> cl, attachments |-> attachments]

\* attach-internet-gateway against a collection of gateways; `failing`: the
\* call fails for a reason other than the provider's refusal.  aws.run
\* bails on either.
AttachCall(calls, gateways, igw_id, vpc_id, failing) ==
    IF failing
    THEN Outcome(Append(calls, "attach-internet-gateway"), Err("provider"), gateways)
    ELSE IF \/ \E g \in gateways : g.id = igw_id /\ g.attachments # {}
            \/ \E g \in gateways : vpc_id \in g.attachments
    THEN Outcome(Append(calls, "attach-internet-gateway"),
                 Err("Resource.AlreadyAssociated"), gateways)
    ELSE Outcome(Append(calls, "attach-internet-gateway"), Ok(igw_id),
                 {IF g.id = igw_id THEN [g EXCEPT !.attachments = @ \cup {vpc_id}] ELSE g
                  : g \in gateways})

EnsureInternetGateway_found_is_enough(cluster, vpc_id, rival, fault) ==
    LET f == find_internet_gateway(cluster)
        created == Gateway(nextId["igw"], cluster, {})
    IN  IF fault = 1 THEN Outcome(<<"describe-internet-gateways">>, Err("provider"), igws)
        ELSE IF ~f.ok THEN Outcome(<<"describe-internet-gateways">>, f, igws)
        ELSE IF f.value # None
        THEN Outcome(<<"describe-internet-gateways">>, Ok((CHOOSE x \in f.value : TRUE).id), igws)
        ELSE IF fault = 2
        THEN Outcome(<<"describe-internet-gateways", "create-internet-gateway">>,
                     Err("provider"), igws)
        ELSE AttachCall(<<"describe-internet-gateways", "create-internet-gateway">>,
                        igws \cup {created}, created.id, vpc_id, fault = 3)

\* ensure_internet_gateway as a function of the provider state: find, or
\* create; attach unless the gateway's attachment list (none for a new
\* gateway) holds the VPC.  `rival`: a concurrent `up` of the cluster
\* attached the gateway found unattached before this run's attach call.
\* `fault` is the position of the call that fails for another reason, 0
\* for none.
EnsureInternetGateway(cluster, vpc_id, rival, fault) ==
    LET f == find_internet_gateway(cluster)
        created == Gateway(nextId["igw"], cluster, {})
    IN  IF fault = 1 THEN Outcome(<<"describe-internet-gateways">>, Err("provider"), igws)
        ELSE IF ~f.ok THEN Outcome(<<"describe-internet-gateways">>, f, igws)
        ELSE IF f.value # None
        THEN LET existing == CHOOSE x \in f.value : TRUE
                 by_then == IF rival
                            THEN AttachCall(<<>>, igws, existing.id, vpc_id, FALSE).after
                            ELSE igws
             IN  IF IgwAttached(existing, vpc_id)
                 THEN Outcome(<<"describe-internet-gateways">>, Ok(existing.id), igws)
                 ELSE AttachCall(<<"describe-internet-gateways">>, by_then,
                                 existing.id, vpc_id, fault = 2)
        ELSE IF fault = 2
        THEN Outcome(<<"describe-internet-gateways", "create-internet-gateway">>,
                     Err("provider"), igws)
        ELSE AttachCall(<<"describe-internet-gateways", "create-internet-gateway">>,
                        igws \cup {created}, created.id, vpc_id, fault = 3)

\* ---- ensure_route_table
EnsureRtFind(r) ==
    /\ run[r].pc = "find_rt"
    /\ LET f == find_route_table(run[r].cluster) IN
         IF ~f.ok THEN Bail(r, f.error)
         ELSE IF f.value # None
         THEN /\ run' = [run EXCEPT ![r].pc = "default_route",
                                    ![r].route_table_id = (CHOOSE x \in f.value : TRUE).id]
              /\ UNCHANGED aborted
         ELSE Goto(r, "create_rt") /\ UNCHANGED aborted
    /\ UNCHANGED <<provider, runs, ensured, health, external, prune>>

EnsureRtCreate(r) ==
    /\ run[r].pc = "create_rt"
    /\ LET id == nextId["rt"] IN
         /\ rts' = rts \cup {[id |-> id,
                              Name |-> resource_name(run[r].cluster, "rt"),
                              Cluster |-> run[r].cluster,
                              vpc |-> run[r].vpc_id,
                              route |-> None,
                              associations |-> {},
                              main |-> FALSE]}
         /\ nextId' = [nextId EXCEPT !["rt"] = id + 1]
         /\ run' = [run EXCEPT ![r].pc = "default_route", ![r].route_table_id = id]
    /\ UNCHANGED <<vpcs, subnets, igws, sgs, keys, instances, runs, ensured, aborted, health, external, prune>>

\* ---- ensure_default_route
\* create-route for 0.0.0.0/0: the provider answers RouteAlreadyExists when
\* the table already holds a route for the destination.
RouteExists(route_table_id) ==
    \E t \in rts : t.id = route_table_id /\ t.route # None

WithRoute(route_table_id, igw_id) ==
    {IF t.id = route_table_id THEN [t EXCEPT !.route = Some(igw_id)] ELSE t : t \in rts}

\* The two texts ensure_default_route looks for in the stderr of a failed
\* create-route.
RouteConflicts == {"RouteAlreadyExists", "InvalidRoute.Duplicate"}

EnsureDefaultRoute_replace_anyway(route_table_id, igw_id, conflict, fault) ==
    IF fault = 2
    THEN Outcome(<<"create-route", "replace-route">>, Err("failed to replace route"), rts)
    ELSE Outcome(<<"create-route", "replace-route">>, Ok(NoId), WithRoute(route_table_id, igw_id))

\* ensure_default_route as a function of the provider state: create-route;
\* when its stderr holds one of RouteConflicts (the text `conflict` the
\* provider uses for an existing destination), replace-route.  `fault` is
\* the position (1 or 2) of the call that fails for another reason, 0 for
\* none.
EnsureDefaultRoute(route_table_id, igw_id, conflict, fault) ==
    LET create == IF fault = 1 THEN "failure"
                  ELSE IF RouteExists(route_table_id) THEN conflict ELSE "ok"
        replace == IF fault = 2 THEN "failure" ELSE "ok"
    IN  IF create = "ok"
        THEN Outcome(<<"create-route">>, Ok(NoId), WithRoute(route_table_id, igw_id))
        ELSE IF create \in RouteConflicts
        THEN IF replace = "ok"
             THEN Outcome(<<"create-route", "replace-route">>, Ok(NoId),
                          WithRoute(route_table_id, igw_id))
             ELSE Outcome(<<"create-route", "replace-route">>,
                          Err("failed to replace route"), rts)
        ELSE Outcome(<<"create-route">>, Err("failed to create route"), rts)

\* create-route; on RouteAlreadyExists, replace-route (a failure of either
\* call for another reason is CallFails).
ensure_default_route(r) ==
    /\ run[r].pc = "default_route"
    /\ rts' = EnsureDefaultRoute(run[r].route_table_id, run[r].igw_id,
                                 "RouteAlreadyExists", 0).after
    /\ Goto(r, "association")
    /\ UNCHANGED <<vpcs, subnets, igws, sgs, keys, instances, nextId,
                   runs, ensured, aborted, health, external, prune>>

\* ---- ensure_route_table_association
\* describe-route-tables filtered by association.subnet-id: the tables
\* holding an explicit association with the subnet.
TablesAssociatedWith(subnet_id) ==
    {t \in rts : subnet_id \in t.associations}

\* The route tables once the subnet's association is on the given table
\* (replace-route-table-association moves it, associate-route-table adds
\* it: a subnet has one explicit association).
Associated(route_table_id, subnet_id) ==
    {IF t.id = route_table_id
     THEN [t EXCEPT !.associations = @ \cup {subnet_id}]
     ELSE [t EXCEPT !.associations = @ \ {subnet_id}]
     : t \in rts}

EnsureRouteTableAssociation_associate_only(route_table_id, subnet_id, rival, fault) ==
    IF fault = 1 THEN Outcome(<<"describe-route-tables">>, Err("provider"), rts)
    ELSE IF \E t \in TablesAssociatedWith(subnet_id) : t.id = route_table_id
    THEN Outcome(<<"describe-route-tables">>, Ok(NoId), rts)
    ELSE IF fault = 2
    THEN Outcome(<<"describe-route-tables", "associate-route-table">>,
                 Err("failed to associate route table"), rts)
    ELSE IF TablesAssociatedWith(subnet_id) # {}
    THEN Outcome(<<"describe-route-tables", "associate-route-table">>, Ok(NoId), rts)
    ELSE Outcome(<<"describe-route-tables", "associate-route-table">>, Ok(NoId),
                 Associated(route_table_id, subnet_id))

\* ensure_route_table_association as a function of the provider state.
\* Already on the target table: no further call.  On another table:
\* replace-route-table-association.  On none: associate-route-table, which
\* the provider answers with Resource.AlreadyAssociated when the subnet
\* has an association by then (`rival`: a concurrent `up` of the cluster
\* associated it between the two calls); that answer is taken as success.
\* `fault` is the position (1 or 2) of the call that fails for another
\* reason, 0 for none.
EnsureRouteTableAssociation(route_table_id, subnet_id, rival, fault) ==
    LET result == TablesAssociatedWith(subnet_id) IN
    IF fault = 1 THEN Outcome(<<"describe-route-tables">>, Err("provider"), rts)
    ELSE IF \E t \in result : t.id = route_table_id
    THEN Outcome(<<"describe-route-tables">>, Ok(NoId), rts)
    ELSE IF result # {}
    THEN IF fault = 2
         THEN Outcome(<<"describe-route-tables", "replace-route-table-association">>,
                      Err("provider"), rts)
         ELSE Outcome(<<"describe-route-tables", "replace-route-table-association">>,
                      Ok(NoId), Associated(route_table_id, subnet_id))
    ELSE LET by_then == IF rival THEN Associated(route_table_id, subnet_id) ELSE rts
             associate == IF fault = 2 THEN "failure"
                          ELSE IF \E t \in by_then : subnet_id \in t.associations
                          THEN "Resource.AlreadyAssociated" ELSE "ok"
         IN  IF associate = "ok"
             THEN Outcome(<<"describe-route-tables", "associate-route-table">>,
                          Ok(NoId), Associated(route_table_id, subnet_id))
             ELSE IF associate = "Resource.AlreadyAssociated"
             THEN Outcome(<<"describe-route-tables", "associate-route-table">>,
                          Ok(NoId), by_then)
             ELSE Outcome(<<"describe-route-tables", "associate-route-table">>,
                          Err("failed to associate route table"), by_then)

\* No concurrent run; a failing call is CallFails.
ensure_route_table_association(r) ==
    /\ run[r].pc = "association"
    /\ rts' = EnsureRouteTableAssociation(run[r].route_table_id, run[r].subnet_id,
                                          FALSE, 0).after
    /\ Goto(r, "find_sg")
    /\ Returned(r, "rt", run[r].route_table_id)
    /\ UNCHANGED <<vpcs, subnets, igws, sgs, keys, instances, nextId,
                   runs, aborted, health, external, prune>>

\* ---- ensure_security_group
EnsureSgFind(r) ==
    /\ run[r].pc = "find_sg"
    /\ LET f == find_security_group(run[r].cluster) IN
         IF ~f.ok THEN Bail(r, f.error)
         ELSE IF f.value # None
         THEN /\ run' = [run EXCEPT ![r].pc = "authorize", ![r].port = 1,
                                    ![r].sg_id = (CHOOSE x \in f.value : TRUE).id]
              /\ UNCHANGED aborted
         ELSE Goto(r, "create_sg") /\ UNCHANGED aborted
    /\ UNCHANGED <<provider, runs, ensured, health, external, prune>>

\* create-security-group --group-name: the provider refuses a name the VPC
\* already has a group of.
EnsureSgCreate(r) ==
    /\ run[r].pc = "create_sg"
    /\ IF \E g \in sgs : g.vpc = run[r].vpc_id /\ g.Name = resource_name(run[r].cluster, "sg")
       THEN Bail(r, "InvalidGroup.Duplicate") /\ UNCHANGED <<sgs, nextId>>
       ELSE LET id == nextId["sg"] IN
            /\ sgs' = sgs \cup {[id |-> id,
                                 Name |-> resource_name(run[r].cluster, "sg"),
                                 Cluster |-> run[r].cluster,
                                 vpc |-> run[r].vpc_id,
                                 ingress |-> {}]}
            /\ nextId' = [nextId EXCEPT !["sg"] = id + 1]
            /\ run' = [run EXCEPT ![r].pc = "authorize", ![r].port = 1, ![r].sg_id = id]
            /\ UNCHANGED aborted
    /\ UNCHANGED <<vpcs, subnets, igws, rts, keys, instances, runs, ensured, health, external, prune>>

\* authorize_sg_ingress for SgPorts[port]: InvalidPermission.Duplicate is
\* taken as success; the provider's rule set is a set.
authorize_sg_ingress(r) ==
    /\ run[r].pc = "authorize"
    /\ sgs' = {IF g.id = run[r].sg_id
               THEN [g EXCEPT !.ingress = @ \cup {SgPorts[run[r].port]}] ELSE g
               : g \in sgs}
    /\ IF run[r].port < Len(SgPorts)
       THEN run' = [run EXCEPT ![r].port = @ + 1] /\ UNCHANGED ensured
       ELSE Goto(r, "key_exists") /\ Returned(r, "sg", run[r].sg_id)
    /\ UNCHANGED <<vpcs, subnets, igws, rts, keys, instances, nextId, runs, aborted, health, external, prune>>

\* The authorize-security-group-ingress call for a port.
AuthorizeIngress(port) == "authorize-security-group-ingress --port " \o ToString(port)

\* A group named and tagged as create-security-group does for cluster a.
Group(id, cl, ingress) ==
    [id |-> id, Name |-> resource_name("a", "sg"), Cluster |-> cl, vpc |-> 1, ingress |-> ingress]

\* The loop over SgPorts from position n on, o being what the handler did
\* so far: authorize_sg_ingress takes success and a stderr holding
\* InvalidPermission.Duplicate (the rule is there already) as Ok and bails
\* otherwise.
RECURSIVE AuthorizeFrom(_, _, _, _)
AuthorizeFrom(o, sg_id, n, fault) ==
    IF n > Len(SgPorts) THEN Outcome(o.calls, Ok(sg_id), o.after)
    ELSE LET calls == Append(o.calls, AuthorizeIngress(SgPorts[n]))
             answer == IF fault = Len(calls) THEN "failure"
                       ELSE IF \E g \in o.after : g.id = sg_id /\ SgPorts[n] \in g.ingress
                       THEN "InvalidPermission.Duplicate" ELSE "ok"
             added == {IF g.id = sg_id THEN [g EXCEPT !.ingress = @ \cup {SgPorts[n]}] ELSE g
                       : g \in o.after}
         IN  IF answer = "ok"
             THEN AuthorizeFrom(Outcome(calls, o.result, added), sg_id, n + 1, fault)
             ELSE IF answer = "InvalidPermission.Duplicate"
             THEN AuthorizeFrom(Outcome(calls, o.result, o.after), sg_id, n + 1, fault)
             ELSE Outcome(calls, Err("failed to authorize security group ingress"), o.after)

EnsureSecurityGroup_found_is_enough(cluster, vpc_id, rival, fault) ==
    LET f == find_security_group(cluster)
        created == Group(nextId["sg"], cluster, {})
    IN  IF fault = 1 THEN Outcome(<<"describe-security-groups">>, Err("provider"), sgs)
        ELSE IF ~f.ok THEN Outcome(<<"describe-security-groups">>, f, sgs)
        ELSE IF f.value # None
        THEN Outcome(<<"describe-security-groups">>, Ok((CHOOSE x \in f.value : TRUE).id), sgs)
        ELSE IF fault = 2 \/ \E g \in sgs : g.Name = created.Name /\ g.vpc = vpc_id
        THEN Outcome(<<"describe-security-groups", "create-security-group">>,
                     Err("provider"), sgs)
        ELSE AuthorizeFrom(Outcome(<<"describe-security-groups", "create-security-group">>,
                                   Ok(created.id), sgs \cup {created}),
                           created.id, 1, fault)

\* ensure_security_group as a function of the provider state: find, or
\* create (the provider refuses a group name already used in the VPC, and
\* aws.run bails on that as on any failure); then the loop over the ports.
\* `rival`: a concurrent `up` of the cluster created the group after this
\* run's find.  `fault` is the position of the call that fails for another
\* reason, 0 for none.
EnsureSecurityGroup(cluster, vpc_id, rival, fault) ==
    LET f == find_security_group(cluster)
        created == Group(nextId["sg"], cluster, {})
        by_then == IF rival THEN sgs \cup {created} ELSE sgs
    IN  IF fault = 1 THEN Outcome(<<"describe-security-groups">>, Err("provider"), sgs)
        ELSE IF ~f.ok THEN Outcome(<<"describe-security-groups">>, f, sgs)
        ELSE IF f.value # None
        THEN AuthorizeFrom(Outcome(<<"describe-security-groups">>, Ok(NoId), sgs),
                           (CHOOSE x \in f.value : TRUE).id, 1, fault)
        ELSE IF fault = 2
        THEN Outcome(<<"describe-security-groups", "create-security-group">>,
                     Err("provider"), by_then)
        ELSE IF \E g \in by_then : g.Name = created.Name /\ g.vpc = vpc_id
        THEN Outcome(<<"describe-security-groups", "create-security-group">>,
                     Err("InvalidGroup.Duplicate"), by_then)
        ELSE AuthorizeFrom(Outcome(<<"describe-security-groups", "create-security-group">>,
                                   Ok(created.id), sgs \cup {created}),
                           created.id, 1, fault)

\* ---- ensure_key_pair
key_pair_exists(r) ==
    /\ run[r].pc = "key_exists"
    /\ IF resource_name(run[r].cluster, "key") \in keys
       THEN Goto(r, "resolve_ami")
       ELSE Goto(r, "import_key")
    /\ UNCHANGED <<provider, runs, ensured, aborted, health, external, prune>>

ensure_key_pair(r) ==
    /\ run[r].pc = "import_key"
    /\ IF resource_name(run[r].cluster, "key") \in keys
       THEN Bail(r, "InvalidKeyPair.Duplicate") /\ UNCHANGED keys
       ELSE /\ keys' = keys \cup {resource_name(run[r].cluster, "key")}
            /\ Goto(r, "resolve_ami")
            /\ UNCHANGED aborted
    /\ UNCHANGED <<vpcs, subnets, igws, rts, sgs, instances, nextId, runs, ensured, health, external, prune>>

\* ensure_key_pair as a function of the provider state: describe-key-pairs;
\* import-key-pair when the key is not there, through aws.run, which bails
\* on the provider's InvalidKeyPair.Duplicate as on any failure.  `rival`: a
\* concurrent `up` of the cluster imported the key after this run's
\* describe.  `fault` is the position of the call that fails for another
\* reason, 0 for none.
EnsureKeyPair(cluster, rival, fault) ==
    LET key_name == resource_name(cluster, "key")
        by_then == IF rival THEN keys \cup {key_name} ELSE keys
    IN  IF fault = 1
        THEN Outcome(<<"describe-key-pairs">>, Err("failed to describe key pairs"), keys)
        ELSE IF key_name \in keys
        THEN Outcome(<<"describe-key-pairs">>, Ok(key_name), keys)
        ELSE IF fault = 2
        THEN Outcome(<<"describe-key-pairs", "import-key-pair">>, Err("provider"), by_then)
        ELSE IF key_name \in by_then
        THEN Outcome(<<"describe-key-pairs", "import-key-pair">>,
                     Err("InvalidKeyPair.Duplicate"), by_then)
        ELSE Outcome(<<"describe-key-pairs", "import-key-pair">>, Ok(key_name),
                     keys \cup {key_name})

\* ---- image, launch, wait
resolve_ami_id(r) ==
    /\ run[r].pc = "resolve_ami"
    /\ Goto(r, "launch")
    /\ UNCHANGED <<provider, runs, ensured, aborted, health, external, prune>>

launch_instance(r) ==
    /\ run[r].pc = "launch"
    /\ LET id == nextId["instance"] IN
         /\ instances' = instances \cup {[id |-> id,
                                          Name |-> run[r].name,
                                          Cluster |-> run[r].cluster,
                                          state |-> "pending",
                                          subnet |-> run[r].subnet_id,
                                          sg |-> run[r].sg_id]}
         /\ nextId' = [nextId EXCEPT !["instance"] = id + 1]
         /\ run' = [run EXCEPT ![r].pc = "wait_running", ![r].instance_id = id]
    /\ UNCHANGED <<vpcs, subnets, igws, rts, sgs, keys, runs, ensured, aborted, health, external, prune>>

\* `aws ec2 wait instance-running` returns once the provider reports the
\* instance running.
wait_for_instance_running(r) ==
    /\ run[r].pc = "wait_running"
    /\ instances' = {IF i.id = run[r].instance_id /\ i.state = "pending"
                     THEN [i EXCEPT !.state = "running"] ELSE i : i \in instances}
    /\ Goto(r, "fetch_ip")
    /\ UNCHANGED <<vpcs, subnets, igws, rts, sgs, keys, nextId, runs, ensured, aborted, health, external, prune>>

fetch_instance_public_ip(r) ==
    /\ run[r].pc = "fetch_ip"
    /\ Goto(r, "print_status")
    /\ UNCHANGED <<provider, runs, ensured, aborted, health, external, prune>>

print_aws_status_and_refresh_ssh_config(r) ==
    /\ run[r].pc = "print_status"
    /\ LET vpc_id == find_vpc(run[r].cluster)
           sg_id == find_security_group(run[r].cluster) IN
         IF ~vpc_id.ok THEN Bail(r, vpc_id.error)
         ELSE IF ~sg_id.ok THEN Bail(r, sg_id.error)
         ELSE /\ run' = [run EXCEPT ![r] = [IdleRun EXCEPT !.pc = "done",
                                                           !.cluster = run[r].cluster,
                                                           !.name = run[r].name]]
              /\ UNCHANGED aborted
    /\ UNCHANGED <<provider, runs, ensured, health, external, prune>>

UpStep(r) ==
    \/ CallFails(r)
    \/ PrintBanner(r)
    \/ ensure_no_duplicate_instance(r)
    \/ EnsureVpcFind(r)
    \/ EnsureVpcCreate(r)
    \/ EnsureSubnetFind(r)
    \/ EnsureSubnetCreate(r)
    \/ EnsureSubnetModify(r)
    \/ EnsureIgwFind(r)
    \/ EnsureIgwCreate(r)
    \/ EnsureIgwAttach(r)
    \/ EnsureRtFind(r)
    \/ EnsureRtCreate(r)
    \/ ensure_default_route(r)
    \/ ensure_route_table_association(r)
    \/ EnsureSgFind(r)
    \/ EnsureSgCreate(r)
    \/ authorize_sg_ingress(r)
    \/ key_pair_exists(r)
    \/ ensure_key_pair(r)
    \/ resolve_ami_id(r)
    \/ launch_instance(r)
    \/ wait_for_instance_running(r)
    \/ fetch_instance_public_ip(r)
    \/ print_aws_status_and_refresh_ssh_config(r)

\* --------------------------------------------------------- run_aws_prune
\* The provider's answer to one teardown call on the current state: ok, or
\* the error code it reports.  A resource others still depend on cannot be
\* deleted.
Response(call, id, arg) ==
    CASE call = "disassociate-route-table" ->
           IF \E t \in rts : t.id = id /\ arg \in t.associations
           THEN "ok" ELSE "InvalidAssociationID.NotFound"
      [] call = "delete-route-table" ->
           IF \A t \in rts : t.id # id THEN "InvalidRouteTableID.NotFound"
           ELSE IF \E t \in rts : t.id = id /\ (t.main \/ t.associations # {})
           THEN "DependencyViolation" ELSE "ok"
      [] call = "delete-subnet" ->
           IF \A s \in subnets : s.id # id THEN "InvalidSubnetID.NotFound"
           ELSE IF \E i \in instances : i.subnet = id /\ i.state \in NON_TERMINATED_STATES
           THEN "DependencyViolation" ELSE "ok"
      [] call = "detach-internet-gateway" ->
           IF \A g \in igws : g.id # id THEN "InvalidInternetGatewayID.NotFound"
           ELSE IF \A v \in vpcs : v.id # arg THEN "InvalidVpcID.NotFound"
           ELSE IF \E g \in igws : g.id = id /\ arg \notin g.attachments
           THEN "Gateway.NotAttached" ELSE "ok"
      [] call = "delete-internet-gateway" ->
           IF \A g \in igws : g.id # id THEN "InvalidInternetGatewayID.NotFound"
           ELSE IF \E g \in igws : g.id = id /\ g.attachments # {}
           THEN "DependencyViolation" ELSE "ok"
      [] call = "delete-security-group" ->
           IF \A g \in sgs : g.id # id THEN "InvalidGroup.NotFound"
           ELSE IF \E i \in instances : i.sg = id /\ i.state \in NON_TERMINATED_STATES
           THEN "DependencyViolation" ELSE "ok"
      [] call = "delete-vpc" ->
           IF \A v \in vpcs : v.id # id THEN "InvalidVpcID.NotFound"
           ELSE IF \/ \E s \in subnets : s.vpc = id
                   \/ \E t \in rts : t.vpc = id /\ ~t.main
                   \/ \E g \in sgs : g.vpc = id
                   \/ \E g \in igws : id \in g.attachments
           THEN "DependencyViolation" ELSE "ok"
      [] OTHER ->
           IF id \in keys THEN "ok" ELSE "InvalidKeyPair.NotFound"

\* The effect of a teardown call the provider answers with ok.
Apply(call, id, arg) ==
    /\ rts' = CASE call = "disassociate-route-table" ->
                     {IF t.id = id THEN [t EXCEPT !.associations = @ \ {arg}] ELSE t : t \in rts}
                [] call = "delete-route-table" -> {t \in rts : t.id # id}
                [] call = "delete-subnet" ->
                     {[t EXCEPT !.associations = @ \ {id}] : t \in rts}
                [] call = "delete-vpc" -> {t \in rts : t.vpc # id}
                [] OTHER -> rts
    /\ subnets' = IF call = "delete-subnet" THEN {s \in subnets : s.id # id} ELSE subnets
    /\ igws' = CASE call = "detach-internet-gateway" ->
                      {IF g.id = id THEN [g EXCEPT !.attachments = @ \ {arg}] ELSE g : g \in igws}
                 [] call = "delete-internet-gateway" -> {g \in igws : g.id # id}
                 [] OTHER -> igws
    /\ sgs' = IF call = "delete-security-group" THEN {g \in sgs : g.id # id} ELSE sgs
    /\ vpcs' = IF call = "delete-vpc" THEN {v \in vpcs : v.id # id} ELSE vpcs
    /\ keys' = IF call = "delete-key-pair" THEN keys \ {id} ELSE keys
    /\ UNCHANGED <<instances, nextId>>

\* The calls of prune that change the provider's state, in no order.
TeardownCalls ==
    {"disassociate-route-table", "delete-route-table", "delete-subnet",
     "detach-internet-gateway", "delete-internet-gateway",
     "delete-security-group", "delete-vpc", "delete-key-pair"}

\* The positions of run_aws_prune at which a provider call is pending.
PruneCallPcs ==
    {"banner", "find_vpc", "describe_instances", "find_rt", "find_subnet",
     "find_igw", "find_sg", "describe-key-pairs"} \cup TeardownCalls

Tolerated_none(call) == {}

\* The error codes each helper treats as "already gone".
Tolerated(call) ==
    CASE call = "disassociate-route-table" -> {"InvalidAssociationID.NotFound"}
      [] call = "delete-route-table" -> {"InvalidRouteTableID.NotFound"}
      [] call = "delete-subnet" -> {"InvalidSubnetID.NotFound"}
      [] call = "detach-internet-gateway" ->
           {"Gateway.NotAttached", "InvalidInternetGatewayID.NotFound", "InvalidVpcID.NotFound"}
      [] call = "delete-internet-gateway" -> {"InvalidInternetGatewayID.NotFound"}
      [] call = "delete-security-group" -> {"InvalidGroup.NotFound"}
      [] call = "delete-vpc" -> {"InvalidVpcID.NotFound"}
      [] call = "describe-key-pairs" -> {"InvalidKeyPair.NotFound"}
      [] call = "delete-key-pair" -> {"InvalidKeyPair.NotFound"}
      [] OTHER -> {}

Then_vpc_before_group(step, force) ==
    CASE step = "describe_instances" -> IF force THEN "find_rt" ELSE "confirm"
      [] step = "confirm" -> "find_rt"
      [] step = "disassociate-route-table" -> "delete-route-table"
      [] step = "delete-route-table" -> "find_subnet"
      [] step = "delete-subnet" -> "find_igw"
      [] step = "detach-internet-gateway" -> "delete-internet-gateway"
      [] step = "delete-internet-gateway" -> "delete-vpc"
      [] step = "delete-vpc" -> "find_sg"
      [] step = "delete-security-group" -> IF force THEN "describe-key-pairs" ELSE "confirm_key"
      [] step = "confirm_key" -> "describe-key-pairs"
      [] OTHER -> "done"

\* The statement of run_aws_prune that follows each step.
Then(step, force) ==
    CASE step = "describe_instances" -> IF force THEN "find_rt" ELSE "confirm"
      [] step = "confirm" -> "find_rt"
      [] step = "disassociate-route-table" -> "delete-route-table"
      [] step = "delete-route-table" -> "find_subnet"
      [] step = "delete-subnet" -> "find_igw"
      [] step = "detach-internet-gateway" -> "delete-internet-gateway"
      [] step = "delete-internet-gateway" -> "find_sg"
      [] step = "delete-security-group" -> "delete-vpc"
      [] step = "delete-vpc" -> IF force THEN "describe-key-pairs" ELSE "confirm_key"
      [] step = "confirm_key" -> "describe-key-pairs"
      [] OTHER -> "done"

\* calls, prompted, settled and last are history: the teardown calls this
\* invocation has issued, whether it has prompted, the kinds whose step was
\* issued or found absent, and the latest call with the provider's answer.
IdlePrune ==
    [pc |-> "idle", cluster |-> "a", force |-> FALSE, count |-> 0,
     vpc_id |-> NoId, route_table_id |-> NoId, todo |-> {},
     subnet_id |-> NoId, igw_id |-> NoId, sg_id |-> NoId,
     calls |-> <<>>, prompted |-> FALSE, settled |-> {},
     last |-> [call |-> "none", response |-> "none"],
     outcome |-> "none", err |-> "none"]

\* The process exits: Ok(()) with what it printed, or the propagated error.
Exited(p, pc, outcome, err) ==
    [p EXCEPT !.pc = pc, !.outcome = outcome, !.err = err,
              !.vpc_id = NoId, !.route_table_id = NoId, !.todo = {},
              !.subnet_id = NoId, !.igw_id = NoId, !.sg_id = NoId]

At(p, pc) == IF pc = "done" THEN Exited(p, "done", "pruned", "none") ELSE [p EXCEPT !.pc = pc]

Settles(call) ==
    CASE call = "delete-route-table" -> {"rt"}
      [] call = "delete-subnet" -> {"subnet"}
      [] call = "delete-internet-gateway" -> {"igw"}
      [] call = "delete-security-group" -> {"sg"}
      [] OTHER -> {}

\* if output.status.success() { return Ok(()) }
\* if stderr.contains(<tolerated code>) { return Ok(()) }
\* bail!(..)
Handle(p, call, response, next) ==
    LET q == [p EXCEPT !.calls = IF call \in TeardownCalls THEN Append(@, call) ELSE @,
                       !.last = [call |-> call, response |-> response]]
    IN  IF response = "ok" \/ response \in Tolerated(call)
        THEN At([q EXCEPT !.settled = @ \cup Settles(call)], next)
        ELSE Exited(q, "failed", "none", response)

\* A new invocation of `vmcli ec2 prune <cluster> [--force]`, no `up` being
\* in progress.
PruneStart(cl, force, limit) ==
    /\ prune.pc \in {"idle", "done", "failed"}
    /\ \A r \in Runners : run[r].pc \in {"idle", "done", "failed"}
    /\ prune.count < limit
    /\ prune' = [IdlePrune EXCEPT !.pc = "banner", !.cluster = cl, !.force = force,
                                  !.count = prune.count + 1]
    /\ UNCHANGED <<provider, run, runs, ensured, external, aborted, health>>

\* A provider call fails for a reason no helper tolerates: the error
\* propagates and prune exits with nothing rolled back.
PruneCallFails ==
    /\ prune.pc \in PruneCallPcs
    /\ prune' = Exited([prune EXCEPT
                          !.calls = IF prune.pc \in TeardownCalls THEN Append(@, prune.pc) ELSE @,
                          !.last = [call |-> prune.pc, response |-> "failure"]],
                       "failed", "none", "provider")
    /\ UNCHANGED <<provider, run, runs, ensured, external, aborted, health>>

PrunePrintBanner ==
    /\ prune.pc = "banner"
    /\ prune' = [prune EXCEPT !.pc = "find_vpc"]
    /\ UNCHANGED <<provider, run, runs, ensured, external, aborted, health>>

PruneFindVpc_key_anyway ==
    /\ prune.pc = "find_vpc"
    /\ LET f == find_vpc(prune.cluster) IN
         prune' = IF ~f.ok THEN Exited(prune, "failed", "none", f.error)
                  ELSE IF f.value = None
                  THEN [prune EXCEPT !.pc = "describe-key-pairs"]
                  ELSE [prune EXCEPT !.pc = "describe_instances",
                                     !.vpc_id = (CHOOSE v \in f.value : TRUE).id]
    /\ UNCHANGED <<provider, run, runs, ensured, external, aborted, health>>

\* No VPC tagged for the cluster: "nothing to prune", Ok(()).
PruneFindVpc ==
    /\ prune.pc = "find_vpc"
    /\ LET f == find_vpc(prune.cluster) IN
         prune' = IF ~f.ok THEN Exited(prune, "failed", "none", f.error)
                  ELSE IF f.value = None
                  THEN Exited(prune, "done", "nothing to prune", "none")
                  ELSE [prune EXCEPT !.pc = "describe_instances",
                                     !.vpc_id = (CHOOSE v \in f.value : TRUE).id]
    /\ UNCHANGED <<provider, run, runs, ensured, external, aborted, health>>

describe_instances_by_vpc_running_only(vpc_id) ==
    {i \in instances :
        /\ i.state = "running"
        /\ \E s \in subnets : s.id = i.subnet /\ s.vpc = vpc_id}

\* describe-instances filtered by vpc-id and the non-terminated states; an
\* instance is in the VPC of its subnet.
describe_instances_by_vpc(vpc_id) ==
    {i \in instances :
        /\ i.state \in NON_TERMINATED_STATES
        /\ \E s \in subnets : s.id = i.subnet /\ s.vpc = vpc_id}

PruneDescribeInstances ==
    /\ prune.pc = "describe_instances"
    /\ prune' = IF describe_instances_by_vpc(prune.vpc_id) # {}
                THEN Exited(prune, "failed", "none", "cannot prune while instances exist")
                ELSE [prune EXCEPT !.pc = Then("describe_instances", prune.force)]
    /\ UNCHANGED <<provider, run, runs, ensured, external, aborted, health>>

\* Without --force: the prompt for the whole prune; "aborted", Ok(()) when
\* declined.
PruneConfirm(answer) ==
    /\ prune.pc = "confirm"
    /\ prune' = IF answer
                THEN [prune EXCEPT !.pc = Then("confirm", prune.force), !.prompted = TRUE]
                ELSE Exited([prune EXCEPT !.prompted = TRUE], "done", "aborted", "none")
    /\ UNCHANGED <<provider, run, runs, ensured, external, aborted, health>>

\* The associations disassociate_route_table issues a call for: the main
\* association, which a main table has, is passed over.
NonMainAssociations(route_table) == route_table.associations

PruneFindRouteTable ==
    /\ prune.pc = "find_rt"
    /\ LET f == find_route_table(prune.cluster) IN
         prune' = IF ~f.ok THEN Exited(prune, "failed", "none", f.error)
                  ELSE IF f.value = None
                  THEN [prune EXCEPT !.pc = Then("delete-route-table", prune.force),
                                     !.settled = @ \cup {"rt"}]
                  ELSE LET route_table == CHOOSE t \in f.value : TRUE
                           todo == NonMainAssociations(route_table)
                       IN  [prune EXCEPT !.pc = IF todo = {} THEN "delete-route-table"
                                                ELSE "disassociate-route-table",
                                         !.route_table_id = route_table.id,
                                         !.todo = todo]
    /\ UNCHANGED <<provider, run, runs, ensured, external, aborted, health>>

\* One round of the loop over the associations seen by find_route_table.
disassociate_route_table ==
    /\ prune.pc = "disassociate-route-table"
    /\ \E association \in prune.todo :
         LET response == Response("disassociate-route-table", prune.route_table_id, association)
             rest == prune.todo \ {association}
         IN  /\ IF response = "ok"
                THEN Apply("disassociate-route-table", prune.route_table_id, association)
                ELSE UNCHANGED provider
             /\ prune' = Handle([prune EXCEPT !.todo = rest],
                                "disassociate-route-table", response,
                                IF rest = {} THEN Then("disassociate-route-table", prune.force)
                                ELSE "disassociate-route-table")
    /\ UNCHANGED <<run, runs, ensured, external, aborted, health>>

\* A teardown call on the resource found for it, and what the helper makes
\* of the provider's answer.
Teardown(call, id, arg) ==
    /\ prune.pc = call
    /\ LET response == Response(call, id, arg) IN
         /\ IF response = "ok" THEN Apply(call, id, arg) ELSE UNCHANGED provider
         /\ prune' = Handle(prune, call, response, Then(call, prune.force))
    /\ UNCHANGED <<run, runs, ensured, external, aborted, health>>

delete_route_table == Teardown("delete-route-table", prune.route_table_id, NoId)

PruneFindSubnet ==
    /\ prune.pc = "find_subnet"
    /\ LET f == find_subnet(prune.cluster) IN
         prune' = IF ~f.ok THEN Exited(prune, "failed", "none", f.error)
                  ELSE IF f.value = None
                  THEN [prune EXCEPT !.pc = Then("delete-subnet", prune.force),
                                     !.settled = @ \cup {"subnet"}]
                  ELSE [prune EXCEPT !.pc = "delete-subnet",
                                     !.subnet_id = (CHOOSE s \in f.value : TRUE).id]
    /\ UNCHANGED <<provider, run, runs, ensured, external, aborted, health>>

delete_subnet == Teardown("delete-subnet", prune.subnet_id, NoId)

\* detach_internet_gateway issues no call when the gateway found was not
\* attached to the VPC.
PruneFindIgw ==
    /\ prune.pc = "find_igw"
    /\ LET f == find_internet_gateway(prune.cluster) IN
         prune' = IF ~f.ok THEN Exited(prune, "failed", "none", f.error)
                  ELSE IF f.value = None
                  THEN [prune EXCEPT !.pc = Then("delete-internet-gateway", prune.force),
                                     !.settled = @ \cup {"igw"}]
                  ELSE LET igw == CHOOSE g \in f.value : TRUE IN
                       [prune EXCEPT !.pc = IF IgwAttached(igw, prune.vpc_id)
                                            THEN "detach-internet-gateway"
                                            ELSE Then("detach-internet-gateway", prune.force),
                                     !.igw_id = igw.id]
    /\ UNCHANGED <<provider, run, runs, ensured, external, aborted, health>>

detach_internet_gateway == Teardown("detach-internet-gateway", prune.igw_id, prune.vpc_id)

delete_internet_gateway == Teardown("delete-internet-gateway", prune.igw_id, NoId)

PruneFindSg ==
    /\ prune.pc = "find_sg"
    /\ LET f == find_security_group(prune.cluster) IN
         prune' = IF ~f.ok THEN Exited(prune, "failed", "none", f.error)
                  ELSE IF f.value = None
                  THEN [prune EXCEPT !.pc = Then("delete-security-group", prune.force),
                                     !.settled = @ \cup {"sg"}]
                  ELSE [prune EXCEPT !.pc = "delete-security-group",
                                     !.sg_id = (CHOOSE g \in f.value : TRUE).id]
    /\ UNCHANGED <<provider, run, runs, ensured, external, aborted, health>>

delete_security_group == Teardown("delete-security-group", prune.sg_id, NoId)

delete_vpc == Teardown("delete-vpc", prune.vpc_id, NoId)

\* Without --force: the keypair's own prompt; declined, the keypair stays
\* and prune still reports "pruned".
PruneConfirmKey_declined_deletes(answer) ==
    /\ prune.pc = "confirm_key"
    /\ prune' = [prune EXCEPT !.pc = IF answer THEN "describe-key-pairs" ELSE "delete-key-pair",
                              !.prompted = TRUE]
    /\ UNCHANGED <<provider, run, runs, ensured, external, aborted, health>>

\* The keypair prompt of a prune without --force.
PruneConfirmKey(answer) ==
    /\ prune.pc = "confirm_key"
    /\ prune' = IF answer
                THEN [prune EXCEPT !.pc = Then("confirm_key", prune.force), !.prompted = TRUE]
                ELSE Exited([prune EXCEPT !.prompted = TRUE], "done", "pruned", "none")
    /\ UNCHANGED <<provider, run, runs, ensured, external, aborted, health>>

\* delete_key_pair_if_exists, first half: key_pair_exists.
PruneKeyPairExists ==
    /\ prune.pc = "describe-key-pairs"
    /\ LET response == Response("describe-key-pairs", resource_name(prune.cluster, "key"), NoId) IN
         prune' = Handle(prune, "describe-key-pairs", response,
                         IF response = "ok" THEN "delete-key-pair" ELSE "done")
    /\ UNCHANGED <<provider, run, runs, ensured, external, aborted, health>>

\* delete_key_pair_if_exists, second half: delete-key-pair.
delete_key_pair_if_exists ==
    Teardown("delete-key-pair", resource_name(prune.cluster, "key"), NoId)

PruneStep ==
    \/ PruneCallFails
    \/ PrunePrintBanner
    \/ PruneFindVpc
    \/ PruneDescribeInstances
    \/ \E answer \in BOOLEAN : PruneConfirm(answer)
    \/ PruneFindRouteTable
    \/ disassociate_route_table
    \/ delete_route_table
    \/ PruneFindSubnet
    \/ delete_subnet
    \/ PruneFindIgw
    \/ detach_internet_gateway
    \/ delete_internet_gateway
    \/ PruneFindSg
    \/ delete_security_group
    \/ delete_vpc
    \/ \E answer \in BOOLEAN : PruneConfirmKey(answer)
    \/ PruneKeyPairExists
    \/ delete_key_pair_if_exists

\* ------------------------------------------------------ health verdict
InstanceStates == NON_TERMINATED_STATES \cup {"terminated"}
ChecksTriState == {None, Some(TRUE), Some(FALSE)}
ProbeOutcome == {"Success", "Failed", "Skipped"}
SgPort22Status == {"OpenWorld", "Restricted", "Closed", "Unknown"}

HealthSummary(level, likely, notes) ==
    [level |-> level, ssh_local_problem_likely |-> likely, notes |-> notes]

VNotRunning == HealthSummary("Unreachable", Some(FALSE), "instance-not-running")
VChecksFailing == HealthSummary("Degraded", Some(FALSE), "ec2-status-checks-not-passing")
VProbeOk == HealthSummary("Ok", Some(TRUE), "aws-control-plane-probe-succeeded")
VClosed == HealthSummary("Degraded", Some(FALSE), "security-group-port-22-closed")
VChecksUnknown(remote_probe_success) ==
    HealthSummary(IF remote_probe_success THEN "Degraded" ELSE "Unknown",
                  None,
                  IF remote_probe_success
                  THEN "ec2-status-checks-unknown"
                  ELSE "ec2-status-checks-unknown-and-no-remote-probe-confirmation")
VFallback ==
    HealthSummary("Degraded", Some(FALSE), "instance-running-but-remote-probe-not-confirmed")

\* Variants of the rule order, each the slip of one rule out of place.
summarize_health_checks_first(instance_state, ec2_checks_pass, eic_probe) ==
    LET remote_probe_success == eic_probe.send_ssh_public_key = "Success" IN
    IF ec2_checks_pass = Some(FALSE) THEN VChecksFailing
    ELSE IF instance_state # "running" THEN VNotRunning
    ELSE IF ec2_checks_pass = Some(TRUE) /\ remote_probe_success THEN VProbeOk
    ELSE IF eic_probe.sg_port22 = "Closed" THEN VClosed
    ELSE IF ec2_checks_pass = None THEN VChecksUnknown(remote_probe_success)
    ELSE VFallback

summarize_health_closed_before_probe(instance_state, ec2_checks_pass, eic_probe) ==
    LET remote_probe_success == eic_probe.send_ssh_public_key = "Success" IN
    IF instance_state # "running" THEN VNotRunning
    ELSE IF ec2_checks_pass = Some(FALSE) THEN VChecksFailing
    ELSE IF eic_probe.sg_port22 = "Closed" THEN VClosed
    ELSE IF ec2_checks_pass = Some(TRUE) /\ remote_probe_success THEN VProbeOk
    ELSE IF ec2_checks_pass = None THEN VChecksUnknown(remote_probe_success)
    ELSE VFallback

summarize_health_closed_before_checks(instance_state, ec2_checks_pass, eic_probe) ==
    LET remote_probe_success == eic_probe.send_ssh_public_key = "Success" IN
    IF instance_state # "running" THEN VNotRunning
    ELSE IF eic_probe.sg_port22 = "Closed" THEN VClosed
    ELSE IF ec2_checks_pass = Some(FALSE) THEN VChecksFailing
    ELSE IF ec2_checks_pass = Some(TRUE) /\ remote_probe_success THEN VProbeOk
    ELSE IF ec2_checks_pass = None THEN VChecksUnknown(remote_probe_success)
    ELSE VFallback

summarize_health_unknown_before_closed(instance_state, ec2_checks_pass, eic_probe) ==
    LET remote_probe_success == eic_probe.send_ssh_public_key = "Success" IN
    IF instance_state # "running" THEN VNotRunning
    ELSE IF ec2_checks_pass = Some(FALSE) THEN VChecksFailing
    ELSE IF ec2_checks_pass = Some(TRUE) /\ remote_probe_success THEN VProbeOk
    ELSE IF ec2_checks_pass = None THEN VChecksUnknown(remote_probe_success)
    ELSE IF eic_probe.sg_port22 = "Closed" THEN VClosed
    ELSE VFallback

summarize_health_unknown_ignores_probe(instance_state, ec2_checks_pass, eic_probe) ==
    LET remote_probe_success == eic_probe.send_ssh_public_key = "Success" IN
    IF instance_state # "running" THEN VNotRunning
    ELSE IF ec2_checks_pass = Some(FALSE) THEN VChecksFailing
    ELSE IF ec2_checks_pass = Some(TRUE) /\ remote_probe_success THEN VProbeOk
    ELSE IF eic_probe.sg_port22 = "Closed" THEN VClosed
    ELSE IF ec2_checks_pass = None THEN VChecksUnknown(FALSE)
    ELSE VFallback

summarize_health_unknown_is_fallback(instance_state, ec2_checks_pass, eic_probe) ==
    LET remote_probe_success == eic_probe.send_ssh_public_key = "Success" IN
    IF instance_state # "running" THEN VNotRunning
    ELSE IF ec2_checks_pass = Some(FALSE) THEN VChecksFailing
    ELSE IF ec2_checks_pass = Some(TRUE) /\ remote_probe_success THEN VProbeOk
    ELSE IF eic_probe.sg_port22 = "Closed" THEN VClosed
    ELSE VFallback

summarize_health_fallback_is_unknown(instance_state, ec2_checks_pass, eic_probe) ==
    LET remote_probe_success == eic_probe.send_ssh_public_key = "Success" IN
    IF instance_state # "running" THEN VNotRunning
    ELSE IF ec2_checks_pass = Some(FALSE) THEN VChecksFailing
    ELSE IF ec2_checks_pass = Some(TRUE) /\ remote_probe_success THEN VProbeOk
    ELSE IF eic_probe.sg_port22 = "Closed" THEN VClosed
    ELSE VChecksUnknown(remote_probe_success)

summarize_health_probe_alone_is_ok(instance_state, ec2_checks_pass, eic_probe) ==
    LET remote_probe_success == eic_probe.send_ssh_public_key = "Success" IN
    IF instance_state # "running" THEN VNotRunning
    ELSE IF ec2_checks_pass = Some(FALSE) THEN VChecksFailing
    ELSE IF remote_probe_success THEN VProbeOk
    ELSE IF eic_probe.sg_port22 = "Closed" THEN VClosed
    ELSE IF ec2_checks_pass = None THEN VChecksUnknown(remote_probe_success)
    ELSE VFallback

summarize_health(instance_state, ec2_checks_pass, eic_probe) ==
    LET remote_probe_success == eic_probe.send_ssh_public_key = "Success" IN
    IF instance_state # "running" THEN VNotRunning
    ELSE IF ec2_checks_pass = Some(FALSE) THEN VChecksFailing
    ELSE IF ec2_checks_pass = Some(TRUE) /\ remote_probe_success THEN VProbeOk
    ELSE IF eic_probe.sg_port22 = "Closed" THEN VClosed
    ELSE IF ec2_checks_pass = None THEN VChecksUnknown(remote_probe_success)
    ELSE VFallback

\* The verdict step of `health`: the three signals have been gathered.
Summarize ==
    /\ health.pc = "gathered"
    /\ health' = [health EXCEPT
                    !.pc = "done",
                    !.summary = Some(summarize_health(
                                   health.instance_state,
                                   health.ec2_checks_pass,
                                   [sg_port22 |-> health.sg_port22,
                                    send_ssh_public_key |-> health.send_ssh_public_key]))]
    /\ UNCHANGED <<provider, run, runs, ensured, external, aborted, prune>>

\* ------------------------------------------------ port-22 classification
\* IpPermission values as describe-security-groups reports them.  A Vec is a
\* sequence, an Option the set of at most one value.
IpPermission(proto, from, to, v4, v6, pairs, prefixes) ==
    [ip_protocol |-> proto, from_port |-> from, to_port |-> to,
     ip_ranges |-> v4, ipv6_ranges |-> v6,
     user_id_group_pairs |-> pairs, prefix_list_ids |-> prefixes]

IpRange(cidr) == [cidr_ip |-> cidr]
Ipv6Range(cidr) == [cidr_ipv6 |-> cidr]
UserIdGroupPair(id) == [group_id |-> id]
PrefixListId(id) == [prefix_list_id |-> id]

Permissions ==
    {IpPermission(Some("tcp"), Some(22), Some(22),
                  Some(<<IpRange(Some("0.0.0.0/0"))>>), None, None, None),
     IpPermission(Some("-1"), None, None,
                  Some(<<>>), Some(<<Ipv6Range(Some("::/0"))>>), Some(<<>>), Some(<<>>)),
     IpPermission(Some("TCP"), Some(0), Some(1024),
                  Some(<<IpRange(Some("10.0.0.0/8")), IpRange(Some("0.0.0.0/0"))>>),
                  None, None, None),
     IpPermission(Some("tcp"), Some(22), Some(22),
                  Some(<<IpRange(Some("10.0.0.0/8"))>>), None, None, None),
     IpPermission(Some("tcp"), Some(22), Some(22),
                  None, Some(<<Ipv6Range(Some("2001:db8::/32"))>>), None, None),
     IpPermission(Some("tcp"), None, None,
                  None, None, Some(<<UserIdGroupPair(Some("sg-peer"))>>), None),
     IpPermission(Some("tcp"), Some(22), Some(22),
                  None, None, None, Some(<<PrefixListId(Some("pl-1"))>>)),
     IpPermission(Some("tcp"), Some(22), Some(22),
                  Some(<<>>), None, Some(<<UserIdGroupPair(None)>>), None),
     IpPermission(Some("tcp"), Some(80), Some(80),
                  Some(<<IpRange(Some("0.0.0.0/0"))>>), None, None, None),
     IpPermission(Some("tcp"), Some(23), Some(1024),
                  Some(<<IpRange(Some("10.0.0.0/8"))>>), None, None, None),
     IpPermission(Some("udp"), Some(22), Some(22),
                  Some(<<IpRange(Some("0.0.0.0/0"))>>), None, None, None),
     IpPermission(None, Some(22), Some(22),
                  None, Some(<<Ipv6Range(Some("::/0"))>>), None, None)}

\* str::to_ascii_lowercase on the strings that occur.
to_ascii_lowercase(s) ==
    CASE s = "TCP" -> "tcp"
      [] s = "UDP" -> "udp"
      [] s = "RUNNING" -> "running"
      [] s = "Running" -> "running"
      [] s = "PROVISIONING" -> "provisioning"
      [] s = "ACTIVE" -> "active"
      [] s = "An error occurred (AccessDeniedException) when calling SendSSHPublicKey"
           -> "an error occurred (accessdeniedexception) when calling sendsshpublickey"
      [] s = "Access Denied" -> "access denied"
      [] s = "An error occurred (UnauthorizedOperation)"
           -> "an error occurred (unauthorizedoperation)"
      [] s = "User is not authorized to perform ec2-instance-connect:SendSSHPublicKey"
           -> "user is not authorized to perform ec2-instance-connect:sendsshpublickey"
      [] s = "An error occurred (InvalidInstanceID.NotFound)"
           -> "an error occurred (invalidinstanceid.notfound)"
      [] s = "An error occurred (ThrottlingException): Rate exceeded"
           -> "an error occurred (throttlingexception): rate exceeded"
      [] OTHER -> s

\* Option::unwrap_or
unwrap_or(opt, default) == IF opt = None THEN default ELSE CHOOSE x \in opt : TRUE

permission_allows_tcp_port(permission, port) ==
    LET protocol == to_ascii_lowercase(unwrap_or(permission.ip_protocol, ""))
        from == unwrap_or(permission.from_port, port)
        to == unwrap_or(permission.to_port, port)
    IN  IF protocol = "-1" THEN TRUE
        ELSE IF protocol # "tcp" THEN FALSE
        ELSE from <= port /\ port <= to

\* opt.as_ref().map(|v| v.iter().any(..)).unwrap_or(false) iterates over
\* the list, and over nothing when the list is missing.
Iter(opt) == IF opt = None THEN <<>> ELSE CHOOSE v \in opt : TRUE

permission_has_world_source_v4_only(permission) ==
    LET ip_ranges == Iter(permission.ip_ranges) IN
    \E i \in 1..Len(ip_ranges) : ip_ranges[i].cidr_ip = Some("0.0.0.0/0")

permission_has_world_source(permission) ==
    LET ip_ranges == Iter(permission.ip_ranges)
        ipv6_ranges == Iter(permission.ipv6_ranges)
        has_world_v4 == \E i \in 1..Len(ip_ranges) : ip_ranges[i].cidr_ip = Some("0.0.0.0/0")
        has_world_v6 == \E i \in 1..Len(ipv6_ranges) : ipv6_ranges[i].cidr_ipv6 = Some("::/0")
    IN  has_world_v4 \/ has_world_v6

permission_has_any_source_ranges_only(permission) ==
    LET ip_ranges == Iter(permission.ip_ranges)
        ipv6_ranges == Iter(permission.ipv6_ranges)
    IN  \/ \E i \in 1..Len(ip_ranges) : ip_ranges[i].cidr_ip # None
        \/ \E i \in 1..Len(ipv6_ranges) : ipv6_ranges[i].cidr_ipv6 # None

permission_has_any_source_any_entry(permission) ==
    LET ip_ranges == Iter(permission.ip_ranges)
        ipv6_ranges == Iter(permission.ipv6_ranges)
        pairs == Iter(permission.user_id_group_pairs)
        prefixes == Iter(permission.prefix_list_ids)
    IN  Len(ip_ranges) + Len(ipv6_ranges) + Len(pairs) + Len(prefixes) > 0

permission_has_any_source(permission) ==
    LET ip_ranges == Iter(permission.ip_ranges)
        ipv6_ranges == Iter(permission.ipv6_ranges)
        pairs == Iter(permission.user_id_group_pairs)
        prefixes == Iter(permission.prefix_list_ids)
    IN  \/ \E i \in 1..Len(ip_ranges) : ip_ranges[i].cidr_ip # None
        \/ \E i \in 1..Len(ipv6_ranges) : ipv6_ranges[i].cidr_ipv6 # None
        \/ \E i \in 1..Len(pairs) : pairs[i].group_id # None
        \/ \E i \in 1..Len(prefixes) : prefixes[i].prefix_list_id # None

\* The inner loop over one group's permissions, from index i on: it either
\* returns OpenWorld from the function or ends with has_restricted.
RECURSIVE ScanPermissions(_, _, _)
ScanPermissions(permissions, i, has_restricted) ==
    IF i > Len(permissions)
    THEN [open_world |-> FALSE, has_restricted |-> has_restricted]
    ELSE IF ~permission_allows_tcp_port(permissions[i], 22)
    THEN ScanPermissions(permissions, i + 1, has_restricted)
    ELSE IF permission_has_world_source(permissions[i])
    THEN [open_world |-> TRUE, has_restricted |-> has_restricted]
    ELSE ScanPermissions(permissions, i + 1,
                         has_restricted \/ permission_has_any_source(permissions[i]))

\* The outer loop over the groups; a group without a permission list is
\* skipped.
RECURSIVE ScanGroups(_, _, _)
ScanGroups(security_groups, g, has_restricted) ==
    IF g > Len(security_groups)
    THEN IF has_restricted THEN "Restricted" ELSE "Closed"
    ELSE IF security_groups[g].ip_permissions = None
    THEN ScanGroups(security_groups, g + 1, has_restricted)
    ELSE LET scan == ScanPermissions(CHOOSE p \in security_groups[g].ip_permissions : TRUE,
                                     1, has_restricted)
         IN  IF scan.open_world THEN "OpenWorld"
             ELSE ScanGroups(security_groups, g + 1, scan.has_restricted)

classify_sg_port_22(security_groups) ==
    IF Len(security_groups) = 0 THEN "Unknown"
    ELSE ScanGroups(security_groups, 1, FALSE)

\* The groups attached to the instance, as describe_security_groups_by_ids
\* returns them, grow one group or one permission at a time.
PermissionCount(security_groups) ==
    LET n(g) == IF security_groups[g].ip_permissions = None THEN 0
                ELSE Len(CHOOSE p \in security_groups[g].ip_permissions : TRUE)
        RECURSIVE Sum(_)
        Sum(g) == IF g = 0 THEN 0 ELSE n(g) + Sum(g - 1)
    IN  Sum(Len(security_groups))

DescribeGroup(has_list) ==
    /\ health.pc = "describing"
    /\ Len(health.security_groups) < MaxGroups
    /\ health' = [health EXCEPT !.security_groups =
                      Append(@, [ip_permissions |-> IF has_list THEN Some(<<>>) ELSE None])]
    /\ UNCHANGED <<provider, run, runs, ensured, external, aborted, prune>>

DescribePermission(permission) ==
    /\ health.pc = "describing"
    /\ Len(health.security_groups) > 0
    /\ PermissionCount(health.security_groups) < MaxPermissions
    /\ LET last == Len(health.security_groups) IN
         /\ health.security_groups[last].ip_permissions # None
         /\ health' = [health EXCEPT !.security_groups[last].ip_permissions =
                           Some(Append(CHOOSE p \in @ : TRUE, permission))]
    /\ UNCHANGED <<provider, run, runs, ensured, external, aborted, prune>>

Classify ==
    /\ health.pc = "describing"
    /\ health' = [health EXCEPT !.pc = "classified",
                                !.sg_port22 = Some(classify_sg_port_22(health.security_groups))]
    /\ UNCHANGED <<provider, run, runs, ensured, external, aborted, prune>>

\* ------------------------------------------------------- status checks
\* The status strings describe-instance-status may carry, with the padded
\* and blank ones that normalize_optional exists for.
StatusStrings ==
    {"ok", " ok ", "impaired", "insufficient-data", "initializing",
     "not-applicable", "unknown", "", " "}

\* Option<Ec2StatusSummary>, the summary holding an Option<String>.
Ec2StatusSummary(status) == [status |-> status]
StatusSummaries ==
    {None} \cup {Some(Ec2StatusSummary(None))}
           \cup {Some(Ec2StatusSummary(Some(s))) : s \in StatusStrings}

\* str::trim on the strings above.
trim(s) == IF s = " ok " THEN "ok" ELSE IF s = " " THEN "" ELSE s

normalize_optional(value) ==
    IF value = None THEN None
    ELSE LET trimmed == trim(CHOOSE item \in value : TRUE) IN
         IF trimmed = "" THEN None ELSE Some(trimmed)

\* entry.<x>_status.and_then(|s| normalize_optional(s.status))
\*                 .unwrap_or_else(|| "unknown")
SubStatus(summary) ==
    IF summary = None THEN "unknown"
    ELSE unwrap_or(normalize_optional((CHOOSE s \in summary : TRUE).status), "unknown")

checks_pass_both_unknown(system_status, instance_status) ==
    IF system_status = "ok" /\ instance_status = "ok" THEN Some(TRUE)
    ELSE IF system_status = "unknown" /\ instance_status = "unknown" THEN None
    ELSE Some(FALSE)

\* The match on (system_status, instance_status), arms in source order.
checks_pass(system_status, instance_status) ==
    IF system_status = "ok" /\ instance_status = "ok" THEN Some(TRUE)
    ELSE IF system_status = "unknown" \/ instance_status = "unknown" THEN None
    ELSE Some(FALSE)

Ec2StatusChecks(system_status, instance_status, pass) ==
    [system_status |-> system_status, instance_status |-> instance_status,
     checks_pass |-> pass]

\* health.status_entry is the entry for the instance in the provider's
\* answer, None when the answer has no entry with that instance id.
describe_ec2_status_checks ==
    /\ health.pc = "status"
    /\ LET checks ==
               IF health.status_entry # None
               THEN LET entry == CHOOSE e \in health.status_entry : TRUE
                        system_status == SubStatus(entry.system_status)
                        instance_status == SubStatus(entry.instance_status)
                    IN  Ec2StatusChecks(system_status, instance_status,
                                        checks_pass(system_status, instance_status))
               ELSE IF health.instance_state \in {"stopped", "stopping", "shutting-down"}
               THEN Ec2StatusChecks("not-applicable", "not-applicable", None)
               ELSE Ec2StatusChecks("unknown", "unknown", None)
       IN  health' = [health EXCEPT !.pc = "checked", !.ec2_checks = Some(checks)]
    /\ UNCHANGED <<provider, run, runs, ensured, external, aborted, prune>>

\* ------------------------------------------------------------ the probe
eic_send_key_skip_reason_key_before_zone(instance_running, public_ip_present, az_present, public_key_exists) ==
    IF ~instance_running THEN Some("instance-not-running")
    ELSE IF ~public_ip_present THEN Some("no-public-ip")
    ELSE IF ~public_key_exists THEN Some("ssh-public-key-not-found")
    ELSE IF ~az_present THEN Some("availability-zone-missing")
    ELSE None

eic_send_key_skip_reason_ip_first(instance_running, public_ip_present, az_present, public_key_exists) ==
    IF ~public_ip_present THEN Some("no-public-ip")
    ELSE IF ~instance_running THEN Some("instance-not-running")
    ELSE IF ~az_present THEN Some("availability-zone-missing")
    ELSE IF ~public_key_exists THEN Some("ssh-public-key-not-found")
    ELSE None

eic_send_key_skip_reason(instance_running, public_ip_present, az_present, public_key_exists) ==
    IF ~instance_running THEN Some("instance-not-running")
    ELSE IF ~public_ip_present THEN Some("no-public-ip")
    ELSE IF ~az_present THEN Some("availability-zone-missing")
    ELSE IF ~public_key_exists THEN Some("ssh-public-key-not-found")
    ELSE None

\* What the aws CLI may write to stderr when send-ssh-public-key fails.
ErrorTexts ==
    {"An error occurred (AccessDeniedException) when calling SendSSHPublicKey",
     "Access Denied",
     "An error occurred (UnauthorizedOperation)",
     "User is not authorized to perform ec2-instance-connect:SendSSHPublicKey",
     "An error occurred (InvalidInstanceID.NotFound)",
     "An error occurred (ThrottlingException): Rate exceeded",
     ""}

\* process::Output of a run of the aws CLI.
Output(success, stderr, stdout) ==
    [success |-> success, stderr |-> stderr, stdout |-> stdout]

\* The outcomes of AwsCli::run_output: None when the CLI could not be
\* executed, else its output.
Outputs ==
    {None}
    \cup {Some(Output(FALSE, e, o)) : e \in ErrorTexts, o \in {"", "Access Denied"}}
    \cup {Some(Output(TRUE, "", o)) :
            o \in {"{\"Success\": true}", "{\"Success\": false}", "{}", "Success"}}

\* A message is the sequence of the pieces format! joins.
aws_error_text(output) ==
    LET stderr == trim(output.stderr)
        stdout == trim(output.stdout)
    IN  CASE stderr = "" /\ stdout = "" -> <<"unknown aws cli error">>
          [] stderr # "" /\ stdout = "" -> <<stderr>>
          [] stderr = "" /\ stdout # "" -> <<stdout>>
          [] OTHER -> <<stderr, " | ", stdout>>

\* str::contains for the four needles, on the lowercased texts above.
contains(text, needle) ==
    needle \in
      CASE text = "an error occurred (accessdeniedexception) when calling sendsshpublickey"
             -> {"accessdenied"}
        [] text = "access denied" -> {"access denied"}
        [] text = "an error occurred (unauthorizedoperation)" -> {"unauthorizedoperation"}
        [] text = "user is not authorized to perform ec2-instance-connect:sendsshpublickey"
             -> {"not authorized"}
        [] OTHER -> {}

is_access_denied_error_never(message) == FALSE

is_access_denied_error(message) ==
    \E i \in 1..Len(message) :
        LET lower == to_ascii_lowercase(message[i]) IN
        \/ contains(lower, "accessdenied")
        \/ contains(lower, "access denied")
        \/ contains(lower, "unauthorizedoperation")
        \/ contains(lower, "not authorized")

\* serde_json::from_str::<EicSendSshPublicKeyResponse> on the answers above.
ParseSendResponse(stdout) ==
    CASE stdout = "{\"Success\": true}" -> [ok |-> TRUE, success |-> Some(TRUE)]
      [] stdout = "{\"Success\": false}" -> [ok |-> TRUE, success |-> Some(FALSE)]
      [] stdout = "{}" -> [ok |-> TRUE, success |-> None]
      [] OTHER -> [ok |-> FALSE, success |-> None]

EicProbeResult(h, outcome, reason) ==
    [instance_running |-> h.instance_state = "running",
     public_ip_present |-> h.public_ip # None
                           /\ \A ip \in h.public_ip : trim(ip) # "",
     az_present |-> h.availability_zone # None,
     sg_port22 |-> h.sg_port22,
     send_ssh_public_key |-> outcome,
     send_ssh_public_key_reason |-> reason]

\* run_eic_probe on the instance and local key of h when the provider call,
\* if one is issued, ends as `output`: ok with the probe result, or the
\* error the function bails with.  sent tells whether the call was issued.
EicProbe(h, output) ==
    LET result == EicProbeResult(h, "Skipped", None)
        reason == eic_send_key_skip_reason(result.instance_running,
                                           result.public_ip_present,
                                           result.az_present,
                                           h.public_key_exists)
    IN  IF reason # None
        THEN [ok |-> TRUE, sent |-> FALSE, value |-> EicProbeResult(h, "Skipped", reason)]
        ELSE IF output = None
        THEN [ok |-> FALSE, sent |-> TRUE, error |-> <<"failed to execute aws CLI">>]
        ELSE LET out == CHOOSE o \in output : TRUE
                 message == aws_error_text(out)
                 parsed == ParseSendResponse(trim(out.stdout))
             IN  IF ~out.success
                 THEN IF is_access_denied_error(message)
                      THEN [ok |-> FALSE, sent |-> TRUE, error |-> message]
                      ELSE [ok |-> TRUE, sent |-> TRUE,
                            value |-> EicProbeResult(h, "Failed", Some(message))]
                 ELSE IF ~parsed.ok
                 THEN [ok |-> FALSE, sent |-> TRUE,
                       error |-> <<"parse ec2-instance-connect send-ssh-public-key">>]
                 ELSE IF unwrap_or(parsed.success, FALSE)
                 THEN [ok |-> TRUE, sent |-> TRUE,
                       value |-> EicProbeResult(h, "Success", None)]
                 ELSE [ok |-> TRUE, sent |-> TRUE,
                       value |-> EicProbeResult(h, "Failed", Some(<<"success=false">>))]

\* The rest of `health` once the instance, its status checks and its port-22
\* classification are known: the probe, then the verdict.  An error of the
\* probe ends the operation before summarize_health.
run_eic_probe(output) ==
    /\ health.pc = "probe"
    /\ LET probe == EicProbe(health, output) IN
         health' =
           IF probe.ok
           THEN [health EXCEPT
                   !.pc = "done",
                   !.sent = probe.sent,
                   !.output = IF probe.sent THEN output ELSE None,
                   !.eic_probe = Some(probe.value),
                   !.summary = Some(summarize_health(health.instance_state,
                                                     health.ec2_checks_pass,
                                                     probe.value))]
           ELSE [health EXCEPT
                   !.pc = "failed",
                   !.sent = probe.sent,
                   !.output = output,
                   !.err = Some(probe.error)]
    /\ UNCHANGED <<provider, run, runs, ensured, external, aborted, prune>>

\* ------------------------------------------------------- specifications
HealthIdle ==
    [pc |-> "idle", instance_state |-> "running", ec2_checks_pass |-> None,
     sg_port22 |-> "Unknown", send_ssh_public_key |-> "Skipped", summary |-> None]

Init ==
    /\ vpcs = {} /\ subnets = {} /\ igws = {} /\ rts = {} /\ sgs = {}
    /\ keys = {} /\ instances = {}
    /\ nextId = [k \in Kinds \cup {"instance"} |-> 1]
    /\ run = [r \in Runners |-> IdleRun]
    /\ runs = 0
    /\ external = 0
    /\ ensured = [c \in Clusters |-> [k \in Kinds |-> NoId]]
    /\ aborted = [cluster |-> "a", pc |-> "none"]
    /\ prune = IdlePrune
    /\ health = HealthIdle

\* Sequential `up` runs of one operator: process 1 only, one run at a time.
Next ==
    \/ \E cl \in Clusters, nm \in Names : UpStart(1, cl, nm, MaxRuns)
    \/ UpStep(1)

Spec == Init /\ [][Next]_vars

\* ---- manual intervention at the provider
\* The tag pairs (cluster named in Name, Cluster) given by hand: a copy of
\* a cluster's tags, or one cluster's Name under the other's Cluster tag.
ExternalTags == Clusters \X Clusters

\* Somebody creates a resource by hand (console, another tool) and tags it;
\* the tags may or may not be those of a cluster's resource of that kind.
NewExternal(kind, id, name, cl) ==
    IF kind = "vpc" THEN [id |-> id, Name |-> name, Cluster |-> cl]
    ELSE IF kind = "subnet"
    THEN [id |-> id, Name |-> name, Cluster |-> cl, vpc |-> NoId, map_public_ip |-> FALSE]
    ELSE IF kind = "igw" THEN [id |-> id, Name |-> name, Cluster |-> cl, attachments |-> {}]
    ELSE IF kind = "rt"
    THEN [id |-> id, Name |-> name, Cluster |-> cl, vpc |-> NoId, route |-> None,
          associations |-> {}, main |-> FALSE]
    ELSE [id |-> id, Name |-> name, Cluster |-> cl, vpc |-> NoId, ingress |-> {}]

ExternalCreate(kind, ncl, cl) ==
    /\ <<ncl, cl>> \in ExternalTags
    /\ external < MaxExternal
    /\ external' = external + 1
    /\ LET x == NewExternal(kind, nextId[kind], resource_name(ncl, kind), cl) IN
         /\ vpcs' = IF kind = "vpc" THEN vpcs \cup {x} ELSE vpcs
         /\ subnets' = IF kind = "subnet" THEN subnets \cup {x} ELSE subnets
         /\ igws' = IF kind = "igw" THEN igws \cup {x} ELSE igws
         /\ rts' = IF kind = "rt" THEN rts \cup {x} ELSE rts
         /\ sgs' = IF kind = "sg" THEN sgs \cup {x} ELSE sgs
    /\ nextId' = [nextId EXCEPT ![kind] = @ + 1]
    /\ UNCHANGED <<keys, instances, run, runs, ensured, aborted, health, prune>>

\* One `up` invocation while resources are also created by hand.
ExtNext ==
    \/ \E cl \in Clusters, nm \in Names : UpStart(1, cl, nm, 1)
    \/ UpStep(1)
    \/ \E kind \in Kinds, ncl \in Clusters, cl \in Clusters : ExternalCreate(kind, ncl, cl)

ExtSpec == Init /\ [][ExtNext]_vars

\* ---- teardown
\* The provider moves an instance on (stop, terminate), no command of the
\* tool being in progress.
StateOrder ==
    <<"pending", "running", "stopping", "stopped", "shutting-down", "terminated">>

Position(state) == CHOOSE n \in 1..Len(StateOrder) : StateOrder[n] = state

InstanceChanges(state) ==
    /\ \A r \in Runners : run[r].pc \in {"idle", "done", "failed"}
    /\ prune.pc \in {"idle", "done", "failed"}
    /\ \E i \in instances :
         /\ Position(i.state) < Position(state)
         /\ instances' = (instances \ {i}) \cup {[i EXCEPT !.state = state]}
    /\ UNCHANGED <<vpcs, subnets, igws, rts, sgs, keys, nextId,
                   run, runs, ensured, external, aborted, health, prune>>

\* The resources each teardown call can be aimed at.
Targets(call) ==
    CASE call = "disassociate-route-table" ->
           UNION {{<<t.id, s>> : s \in t.associations} : t \in rts}
      [] call = "delete-route-table" -> {<<t.id, NoId>> : t \in rts}
      [] call = "delete-subnet" -> {<<s.id, NoId>> : s \in subnets}
      [] call = "detach-internet-gateway" ->
           UNION {{<<g.id, v>> : v \in g.attachments} : g \in igws}
      [] call = "delete-internet-gateway" -> {<<g.id, NoId>> : g \in igws}
      [] call = "delete-security-group" -> {<<g.id, NoId>> : g \in sgs}
      [] call = "delete-vpc" -> {<<v.id, NoId>> : v \in vpcs}
      [] OTHER -> {<<k, NoId>> : k \in keys}

\* Somebody else (console, another tool, another prune) removes a resource
\* or a link, which the provider accepts, no `up` being in progress.
ExternalRemove(call) ==
    /\ \A r \in Runners : run[r].pc \in {"idle", "done", "failed"}
    /\ external < MaxExternal
    /\ external' = external + 1
    /\ \E target \in Targets(call) :
         /\ Response(call, target[1], target[2]) = "ok"
         /\ Apply(call, target[1], target[2])
    /\ UNCHANGED <<run, runs, ensured, aborted, health, prune>>

\* Somebody makes a route table the main table of its VPC.
ExternalSetMain ==
    /\ \A r \in Runners : run[r].pc \in {"idle", "done", "failed"}
    /\ external < MaxExternal
    /\ external' = external + 1
    /\ \E t \in rts :
         /\ ~t.main
         /\ rts' = (rts \ {t}) \cup {[t EXCEPT !.main = TRUE]}
    /\ UNCHANGED <<vpcs, subnets, igws, sgs, keys, instances, nextId,
                   run, runs, ensured, aborted, health, prune>>

\* One `up` of a cluster, complete or aborted, then prunes of that cluster,
\* while instances change state and resources are removed by others.
UpBeforePrune(cl, nm) ==
    /\ prune.pc = "idle"
    /\ UpStart(1, cl, nm, 1)

\* ---- the ensure handlers on their own
\* A network of cluster a as an `up` leaves it (VPC 1, subnet 1), a VPC of
\* cluster b, and gateways, route tables, firewall groups and the keypair:
\* one kind in any of the states earlier runs and other actors can have
\* left it in, the others converged.
GatewayStates ==
    {S \in SUBSET ({Gateway(1, "a", att) : att \in {{}, {1}, {2}}}
                   \cup {Gateway(2, cl, att) : cl \in Clusters, att \in {{}, {1}, {2}}}) :
       \A g, h \in S : g # h => g.id # h.id /\ g.attachments \cap h.attachments = {}}

Table(id, cl, route, associations) ==
    [id |-> id, Name |-> resource_name(cl, "rt"), Cluster |-> cl, vpc |-> 1,
     route |-> route, associations |-> associations, main |-> FALSE]

TableStates ==
    {{Table(1, "a", route, s), Table(2, "b", None, t)} :
       route \in {None, {1}, {2}},
       <<s, t>> \in {<<{}, {}>>, <<{1}, {}>>, <<{}, {1}>>}}

GroupStates ==
    {S \in SUBSET ({Group(1, "a", ingress) : ingress \in {{}, {22, 80}, {22, 80, 443, 9090, 9091, 9092}}}
                   \cup {Group(2, "b", {})}) :
       \A g, h \in S : g # h => g.id # h.id}

\* What a completed `up` of cluster a leaves of these.
Converged ==
    [igws |-> {Gateway(1, "a", {1})},
     rts |-> {Table(1, "a", {1}, {1}), Table(2, "b", None, {})},
     sgs |-> {Group(1, "a", {22, 80, 443, 9090, 9091, 9092})},
     keys |-> {resource_name("a", "key")}]

\* The record of one handler call: its arguments, the provider's
\* collection before it, the fault and the rival's move it met, the
\* calls it issued and what it returned.
Called(op, args, rival, fault, was, o) ==
    [op |-> op, args |-> args, rival |-> rival, fault |-> fault, before |-> was,
     calls |-> o.calls, result |-> o.result]

EnsureInit ==
    /\ vpcs = {[id |-> 1, Name |-> resource_name("a", "vpc"), Cluster |-> "a"],
               [id |-> 2, Name |-> resource_name("b", "vpc"), Cluster |-> "b"]}
    /\ subnets = {[id |-> 1, Name |-> resource_name("a", "subnet"), Cluster |-> "a",
                   vpc |-> 1, map_public_ip |-> TRUE]}
    /\ \/ /\ igws \in GatewayStates
          /\ rts = Converged.rts /\ sgs = Converged.sgs /\ keys = Converged.keys
       \/ /\ rts \in TableStates
          /\ igws = Converged.igws /\ sgs = Converged.sgs /\ keys = Converged.keys
       \/ /\ sgs \in GroupStates
          /\ igws = Converged.igws /\ rts = Converged.rts /\ keys = Converged.keys
       \/ /\ keys = {}
          /\ igws = Converged.igws /\ rts = Converged.rts /\ sgs = Converged.sgs
    /\ instances = {}
    /\ nextId = [k \in Kinds \cup {"instance"} |-> IF k = "instance" THEN 1 ELSE 3]
    /\ run = [r \in Runners |-> IdleRun]
    /\ runs = 0
    /\ external = 0
    /\ ensured = [c \in Clusters |-> [k \in Kinds |-> NoId]]
    /\ aborted = [cluster |-> "a", pc |-> "none"]
    /\ prune = IdlePrune
    /\ health = Called("none", <<>>, FALSE, 0, {}, Outcome(<<>>, Ok(NoId), {}))

\* ensure_route_table hands ensure_default_route the table it found or
\* created and the gateway ensure_internet_gateway returned.
DefaultRouteCall(route_table_id, igw_id, conflict, fault) ==
    /\ LET o == EnsureDefaultRoute(route_table_id, igw_id, conflict, fault) IN
         /\ rts' = o.after
         /\ health' = Called("ensure_default_route", <<route_table_id, igw_id>>,
                             FALSE, fault, rts, o)
    /\ UNCHANGED <<vpcs, subnets, igws, sgs, keys, instances, nextId,
                   run, runs, ensured, external, aborted, prune>>

\* ensure_route_table hands ensure_route_table_association the table it
\* found or created and the subnet ensure_subnet returned.
AssociationCall(route_table_id, subnet_id, rival, fault) ==
    /\ LET o == EnsureRouteTableAssociation(route_table_id, subnet_id, rival, fault) IN
         /\ rts' = o.after
         /\ health' = Called("ensure_route_table_association",
                             <<route_table_id, subnet_id>>, rival, fault, rts, o)
    /\ UNCHANGED <<vpcs, subnets, igws, sgs, keys, instances, nextId,
                   run, runs, ensured, external, aborted, prune>>

\* run_aws_up hands ensure_internet_gateway the VPC ensure_vpc returned.
GatewayCall(cluster, vpc_id, rival, fault) ==
    /\ LET o == EnsureInternetGateway(cluster, vpc_id, rival, fault) IN
         /\ igws' = o.after
         /\ nextId' = [nextId EXCEPT !["igw"] =
                         IF \E g \in o.after : g.id = @ THEN @ + 1 ELSE @]
         /\ health' = Called("ensure_internet_gateway", <<cluster, vpc_id>>,
                             rival, fault, igws, o)
    /\ UNCHANGED <<vpcs, subnets, rts, sgs, keys, instances,
                   run, runs, ensured, external, aborted, prune>>

\* run_aws_up hands ensure_security_group the VPC ensure_vpc returned.
GroupCall(cluster, vpc_id, rival, fault) ==
    /\ LET o == EnsureSecurityGroup(cluster, vpc_id, rival, fault) IN
         /\ sgs' = o.after
         /\ nextId' = [nextId EXCEPT !["sg"] =
                         IF \E g \in o.after : g.id = @ THEN @ + 1 ELSE @]
         /\ health' = Called("ensure_security_group", <<cluster, vpc_id>>,
                             rival, fault, sgs, o)
    /\ UNCHANGED <<vpcs, subnets, igws, rts, keys, instances,
                   run, runs, ensured, external, aborted, prune>>

KeyPairCall(cluster, rival, fault) ==
    /\ LET o == EnsureKeyPair(cluster, rival, fault) IN
         /\ keys' = o.after
         /\ health' = Called("ensure_key_pair", <<cluster>>, rival, fault, keys, o)
    /\ UNCHANGED <<vpcs, subnets, igws, rts, sgs, instances, nextId,
                   run, runs, ensured, external, aborted, prune>>

EnsureNext ==
    \/ \E rival \in BOOLEAN, fault \in 0..2 : KeyPairCall("a", rival, fault)
    \/ \E rival \in BOOLEAN, fault \in 0..(2 + Len(SgPorts)) : GroupCall("a", 1, rival, fault)
    \/ \E rival \in BOOLEAN, fault \in 0..3 : GatewayCall("a", 1, rival, fault)
    \/ \E t \in rts, igw_id \in {1, 2}, conflict \in RouteConflicts, fault \in 0..2 :
         DefaultRouteCall(t.id, igw_id, conflict, fault)
    \/ \E t \in rts, s \in subnets, rival \in BOOLEAN, fault \in 0..2 :
         AssociationCall(t.id, s.id, rival, fault)

EnsureSpec == EnsureInit /\ [][EnsureNext]_vars

\* ---- run_aws_destroy, run_aws_reboot
\* describe-instances filtered by tag:Name and the non-terminated states
\* (no Cluster filter).
describe_instances_by_name(name) ==
    {i \in instances : i.Name = name /\ i.state \in NON_TERMINATED_STATES}

find_instance_by_name_first(name) ==
    IF describe_instances_by_name(name) = {} THEN Err("no instance found")
    ELSE Ok(CHOOSE i \in describe_instances_by_name(name) : TRUE)

find_instance_by_name(name) ==
    LET found == describe_instances_by_name(name) IN
    IF found = {} THEN Err("no instance found")
    ELSE IF Cardinality(found) > 1 THEN Err("multiple instances found")
    ELSE Ok(CHOOSE i \in found : TRUE)

\* The process of `vmcli ec2 destroy` or `vmcli ec2 reboot`.
IdleCommand ==
    [op |-> "none", pc |-> "idle", cluster |-> "a", name |-> "n1", force |-> FALSE,
     instance_id |-> NoId, answer |-> {}, calls |-> <<>>, outcome |-> "none", err |-> "none"]

CommandFailed(e) == [health EXCEPT !.pc = "failed", !.err = e]

\* A new invocation: --cluster only selects the configuration (region).
CommandStart(op, cl, nm, force) ==
    /\ health.pc \in {"idle", "done", "failed"}
    /\ health' = [IdleCommand EXCEPT !.op = op, !.pc = "banner", !.cluster = cl,
                                     !.name = nm, !.force = force]
    /\ UNCHANGED <<provider, run, runs, ensured, external, aborted, prune>>

\* aws.run bails on any failure of the call pending.
CommandCallFails ==
    /\ health.pc \in {"banner", "find", "terminate", "wait_terminated", "reboot", "print_status"}
    /\ health' = CommandFailed("provider")
    /\ UNCHANGED <<provider, run, runs, ensured, external, aborted, prune>>

CommandBanner ==
    /\ health.pc = "banner"
    /\ health' = [health EXCEPT !.pc = "find"]
    /\ UNCHANGED <<provider, run, runs, ensured, external, aborted, prune>>

FindInstance ==
    /\ health.pc = "find"
    /\ LET instance == find_instance_by_name(health.name) IN
         health' = IF ~instance.ok THEN CommandFailed(instance.error)
                   ELSE [health EXCEPT !.instance_id = instance.value.id,
                                       !.pc = IF health.op = "reboot" THEN "reboot"
                                              ELSE IF health.force THEN "terminate"
                                              ELSE "confirm"]
    /\ UNCHANGED <<provider, run, runs, ensured, external, aborted, prune>>

DestroyConfirm_declined_terminates(answer) ==
    /\ health.pc = "confirm"
    /\ health' = [health EXCEPT !.pc = "terminate", !.answer = {answer}]
    /\ UNCHANGED <<provider, run, runs, ensured, external, aborted, prune>>

DestroyConfirm(answer) ==
    /\ health.pc = "confirm"
    /\ health' = IF answer THEN [health EXCEPT !.pc = "terminate", !.answer = {answer}]
                 ELSE [health EXCEPT !.pc = "done", !.outcome = "aborted",
                                     !.answer = {answer}]
    /\ UNCHANGED <<provider, run, runs, ensured, external, aborted, prune>>

\* terminate-instances: the provider starts shutting the instance down.
terminate_instance ==
    /\ health.pc = "terminate"
    /\ instances' = {IF i.id = health.instance_id /\ i.state # "terminated"
                     THEN [i EXCEPT !.state = "shutting-down"] ELSE i : i \in instances}
    /\ health' = [health EXCEPT !.pc = "wait_terminated",
                                !.calls = Append(@, <<"terminate-instances", health.instance_id>>)]
    /\ UNCHANGED <<vpcs, subnets, igws, rts, sgs, keys, nextId,
                   run, runs, ensured, external, aborted, prune>>

\* `aws ec2 wait instance-terminated` returns once the instance is
\* terminated.
wait_for_instance_terminated ==
    /\ health.pc = "wait_terminated"
    /\ instances' = {IF i.id = health.instance_id
                     THEN [i EXCEPT !.state = "terminated"] ELSE i : i \in instances}
    /\ health' = [health EXCEPT !.pc = "print_status",
                                !.calls = Append(@, <<"wait instance-terminated", health.instance_id>>)]
    /\ UNCHANGED <<vpcs, subnets, igws, rts, sgs, keys, nextId,
                   run, runs, ensured, external, aborted, prune>>

DestroyPrintStatus ==
    /\ health.pc = "print_status"
    /\ health' = [health EXCEPT !.pc = "done", !.outcome = "terminated"]
    /\ UNCHANGED <<provider, run, runs, ensured, external, aborted, prune>>

\* reboot-instances leaves the instance in its state.
reboot_instance ==
    /\ health.pc = "reboot"
    /\ health' = [health EXCEPT !.pc = "done", !.outcome = "rebooted",
                                !.calls = Append(@, <<"reboot-instances", health.instance_id>>)]
    /\ UNCHANGED <<provider, run, runs, ensured, external, aborted, prune>>

\* The instances `up` runs for the two clusters under one name can have
\* left, each in any state or absent, in the clusters' networks.
Instance(id, cl, state) ==
    [id |-> id, Name |-> "n1", Cluster |-> cl, state |-> state, subnet |-> 1, sg |-> 1]

InstanceStatesOf(id, cl) ==
    {{}} \cup {{Instance(id, cl, state)} : state \in NON_TERMINATED_STATES \cup {"terminated"}}

CommandInit ==
    /\ vpcs = {} /\ subnets = {} /\ igws = {} /\ rts = {} /\ sgs = {} /\ keys = {}
    /\ \E one \in InstanceStatesOf(1, "a"), two \in InstanceStatesOf(2, "b") :
         instances = one \cup two
    /\ nextId = [k \in Kinds \cup {"instance"} |-> IF k = "instance" THEN 3 ELSE 1]
    /\ run = [r \in Runners |-> IdleRun]
    /\ runs = 0
    /\ external = 0
    /\ ensured = [c \in Clusters |-> [k \in Kinds |-> NoId]]
    /\ aborted = [cluster |-> "a", pc |-> "none"]
    /\ prune = IdlePrune
    /\ health = IdleCommand

CommandNext ==
    \/ \E op \in {"destroy", "reboot"}, cl \in Clusters, nm \in Names, force \in BOOLEAN :
         CommandStart(op, cl, nm, force)
    \/ CommandCallFails
    \/ CommandBanner
    \/ FindInstance
    \/ \E answer \in BOOLEAN : DestroyConfirm(answer)
    \/ terminate_instance
    \/ wait_for_instance_terminated
    \/ DestroyPrintStatus
    \/ reboot_instance

CommandSpec == CommandInit /\ [][CommandNext]_vars

\* ---- lightsail_wait_for_instance_state, gce_wait_for_instance_state,
\* ---- droplet_wait_for_state
\* for _ in 0..60
WaitPolls == 60

eq_ignore_ascii_case_exact(a, b) == a = b

\* str::eq_ignore_ascii_case
eq_ignore_ascii_case(a, b) == to_ascii_lowercase(a) = to_ascii_lowercase(b)

\* The callers: provider and the state `up` waits for.
Waits == {<<"lightsail", "running">>, <<"gce", "RUNNING">>, <<"droplet", "active">>}

\* What one poll of the locator can give: an error (the CLI fails, the
\* answer does not parse), no instance, or the instance in the state the
\* provider reports.
ReportedStates == {"pending", "running", "Running", "PROVISIONING", "RUNNING", "new", "active", "ACTIVE"}

LocatorAnswers ==
    {Err("locator")} \cup {Ok(None)} \cup {Ok(Some(state)) : state \in ReportedStates}

IdleWait ==
    [pc |-> "idle", provider |-> "lightsail", expected_state |-> "running",
     polls |-> 0, last |-> Ok(None), err |-> "none"]

WaitInit ==
    /\ vpcs = {} /\ subnets = {} /\ igws = {} /\ rts = {} /\ sgs = {}
    /\ keys = {} /\ instances = {}
    /\ nextId = [k \in Kinds \cup {"instance"} |-> 1]
    /\ run = [r \in Runners |-> IdleRun]
    /\ runs = 0
    /\ external = 0
    /\ ensured = [c \in Clusters |-> [k \in Kinds |-> NoId]]
    /\ aborted = [cluster |-> "a", pc |-> "none"]
    /\ prune = IdlePrune
    /\ health = IdleWait

\* `up` of the provider calls the wait after its create call.
WaitStart(wait) ==
    /\ health.pc \in {"idle", "done", "failed"}
    /\ health' = [IdleWait EXCEPT !.pc = "polling", !.provider = wait[1],
                                  !.expected_state = wait[2]]
    /\ UNCHANGED <<provider, run, runs, ensured, external, aborted, prune>>

\* One iteration of the loop: the poll (`?` on its error), the comparison,
\* the sleep; after the last iteration the bail.
wait_for_instance_state(answer) ==
    /\ health.pc = "polling"
    /\ health.polls < WaitPolls
    /\ LET polled == [health EXCEPT !.polls = @ + 1, !.last = answer] IN
         health' =
           IF ~answer.ok THEN [polled EXCEPT !.pc = "failed", !.err = answer.error]
           ELSE IF \E instance \in answer.value :
                     eq_ignore_ascii_case(instance, health.expected_state)
           THEN [polled EXCEPT !.pc = "done"]
           ELSE IF polled.polls = WaitPolls
           THEN [polled EXCEPT !.pc = "failed", !.err = "timeout"]
           ELSE polled
    /\ UNCHANGED <<provider, run, runs, ensured, external, aborted, prune>>

WaitNext ==
    \/ \E wait \in Waits : WaitStart(wait)
    \/ \E answer \in LocatorAnswers : wait_for_instance_state(answer)

WaitSpec == WaitInit /\ [][WaitNext]_vars

\* ---- droplet up, health, reboot, destroy
\* The droplet names in sort order.
DropletNames == <<"n1", "n2">>

DropletStates == {"new", "active", "off"}

\* sanitize_cloud_identifier on the cluster names that occur.
sanitize_cloud_identifier(input) ==
    CASE input = "a" -> "a"
      [] input = "b" -> "b"

droplet_cluster_tag(cluster) == "cluster-" \o sanitize_cloud_identifier(cluster)

\* The orders in which the provider may list its droplets.
Listings ==
    {l \in [1..Cardinality(instances) -> instances] : \A m, n \in DOMAIN l : l[m] = l[n] => m = n}

Named(list, name) == SelectSeq(list, LAMBDA d : d.Name = name)

\* doctl compute droplet list --tag-name, then the stable sort by name.
droplet_list_cluster_instances(cluster, listing) ==
    LET tagged == SelectSeq(listing, LAMBDA d : d.tag = droplet_cluster_tag(cluster)) IN
    Named(tagged, DropletNames[1]) \o Named(tagged, DropletNames[2])

\* droplets.into_iter().find(|droplet| droplet.name == name)
droplet_find_instance(cluster, name, listing) ==
    LET found == Named(droplet_list_cluster_instances(cluster, listing), name) IN
    IF found = <<>> THEN None ELSE Some(found[1])

IdleDroplet ==
    [op |-> "none", pc |-> "idle", cluster |-> "a", name |-> "n1", force |-> FALSE,
     droplet_id |-> NoId, answer |-> {}, calls |-> <<>>, outcome |-> "none", err |-> "none"]

DropletFailed(e) == [health EXCEPT !.pc = "failed", !.err = e]

DropletStart(op, cl, nm, force) ==
    /\ health.pc \in {"idle", "done", "failed"}
    /\ op = "up" => runs < MaxLaunches
    /\ runs' = IF op = "up" THEN runs + 1 ELSE runs
    /\ health' = [IdleDroplet EXCEPT !.op = op, !.pc = IF op = "up" THEN "up_find" ELSE "find",
                                     !.cluster = cl, !.name = nm, !.force = force]
    /\ UNCHANGED <<provider, run, ensured, external, aborted, prune>>

\* doctl.run / doctl.run_json bail on any failure of the call pending.
DropletCallFails ==
    /\ health.pc \in {"up_find", "create", "wait", "find_created", "find", "reboot", "delete"}
    /\ health' = DropletFailed("provider")
    /\ UNCHANGED <<provider, run, runs, ensured, external, aborted, prune>>

\* run_droplet_up: the name is taken unless the droplet found is off.
DropletUpFind(listing) ==
    /\ health.pc = "up_find"
    /\ LET existing == droplet_find_instance(health.cluster, health.name, listing) IN
         health' = IF \E d \in existing : ~eq_ignore_ascii_case(d.state, "off")
                   THEN DropletFailed("already exists")
                   ELSE [health EXCEPT !.pc = "create"]
    /\ UNCHANGED <<provider, run, runs, ensured, external, aborted, prune>>

\* doctl compute droplet create: the provider accepts a name in use.
DropletCreate ==
    /\ health.pc = "create"
    /\ instances' = instances \cup
         {[id |-> nextId.instance, Name |-> health.name,
           tag |-> droplet_cluster_tag(health.cluster), state |-> "new"]}
    /\ nextId' = [nextId EXCEPT !.instance = @ + 1]
    /\ health' = [health EXCEPT !.pc = "wait",
                                !.calls = Append(@, <<"droplet create", nextId.instance>>)]
    /\ UNCHANGED <<vpcs, subnets, igws, rts, sgs, keys, run, runs, ensured, external, aborted, prune>>

\* droplet_wait_for_state: one poll; `last` says the poll was the 60th.
DropletWait(listing, last) ==
    /\ health.pc = "wait"
    /\ LET droplet == droplet_find_instance(health.cluster, health.name, listing) IN
         health' = IF \E d \in droplet : eq_ignore_ascii_case(d.state, "active")
                   THEN [health EXCEPT !.pc = "find_created"]
                   ELSE IF last THEN DropletFailed("timeout")
                   ELSE health
    /\ UNCHANGED <<provider, run, runs, ensured, external, aborted, prune>>

DropletFindCreated(listing) ==
    /\ health.pc = "find_created"
    /\ LET created == droplet_find_instance(health.cluster, health.name, listing) IN
         health' = IF created = None THEN DropletFailed("not found after create")
                   ELSE [health EXCEPT !.pc = "done", !.outcome = "created",
                                       !.droplet_id = (CHOOSE d \in created : TRUE).id]
    /\ UNCHANGED <<provider, run, runs, ensured, external, aborted, prune>>

\* The lookup of run_droplet_health, run_droplet_reboot, run_droplet_destroy.
DropletFind(listing) ==
    /\ health.pc = "find"
    /\ LET droplet == droplet_find_instance(health.cluster, health.name, listing) IN
         health' =
           IF droplet = None THEN DropletFailed("not found in cluster")
           ELSE LET d == CHOOSE d \in droplet : TRUE IN
                CASE health.op = "health" ->
                       [health EXCEPT !.pc = "done", !.droplet_id = d.id,
                          !.outcome = IF to_ascii_lowercase(d.state) = "active"
                                      THEN "ok" ELSE "unreachable"]
                  [] health.op = "reboot" -> [health EXCEPT !.pc = "reboot", !.droplet_id = d.id]
                  [] health.op = "destroy" ->
                       [health EXCEPT !.droplet_id = d.id,
                                      !.pc = IF health.force THEN "delete" ELSE "confirm"]
    /\ UNCHANGED <<provider, run, runs, ensured, external, aborted, prune>>

DropletReboot ==
    /\ health.pc = "reboot"
    /\ health' = [health EXCEPT !.pc = "done", !.outcome = "rebooted",
                                !.calls = Append(@, <<"droplet-action reboot", health.droplet_id>>)]
    /\ UNCHANGED <<provider, run, runs, ensured, external, aborted, prune>>

DropletConfirm(answer) ==
    /\ health.pc = "confirm"
    /\ health' = IF answer THEN [health EXCEPT !.pc = "delete", !.answer = {answer}]
                 ELSE [health EXCEPT !.pc = "done", !.outcome = "aborted",
                                     !.answer = {answer}]
    /\ UNCHANGED <<provider, run, runs, ensured, external, aborted, prune>>

\* doctl compute droplet delete <id> --force
DropletDelete ==
    /\ health.pc = "delete"
    /\ instances' = {d \in instances : d.id # health.droplet_id}
    /\ health' = [health EXCEPT !.pc = "done", !.outcome = "terminated",
                                !.calls = Append(@, <<"droplet delete", health.droplet_id>>)]
    /\ UNCHANGED <<vpcs, subnets, igws, rts, sgs, keys, nextId,
                   run, runs, ensured, external, aborted, prune>>

\* A droplet boots, is powered off or is powered on.
DropletChanges(state) ==
    /\ \E d \in instances :
         /\ d.state # state
         /\ instances' = (instances \ {d}) \cup {[d EXCEPT !.state = state]}
    /\ UNCHANGED <<vpcs, subnets, igws, rts, sgs, keys, nextId,
                   run, runs, ensured, external, aborted, prune, health>>

DropletInit ==
    /\ vpcs = {} /\ subnets = {} /\ igws = {} /\ rts = {} /\ sgs = {}
    /\ keys = {} /\ instances = {}
    /\ nextId = [k \in Kinds \cup {"instance"} |-> 1]
    /\ run = [r \in Runners |-> IdleRun]
    /\ runs = 0
    /\ external = 0
    /\ ensured = [c \in Clusters |-> [k \in Kinds |-> NoId]]
    /\ aborted = [cluster |-> "a", pc |-> "none"]
    /\ prune = IdlePrune
    /\ health = IdleDroplet

DropletNext ==
    \/ \E op \in {"up", "health", "reboot", "destroy"}, cl \in Clusters, force \in BOOLEAN :
         \E n \in DOMAIN DropletNames : DropletStart(op, cl, DropletNames[n], force)
    \/ DropletCallFails
    \/ \E listing \in Listings : DropletUpFind(listing)
    \/ DropletCreate
    \/ \E listing \in Listings, last \in BOOLEAN : DropletWait(listing, last)
    \/ \E listing \in Listings : DropletFindCreated(listing)
    \/ \E listing \in Listings : DropletFind(listing)
    \/ DropletReboot
    \/ \E answer \in BOOLEAN : DropletConfirm(answer)
    \/ DropletDelete
    \/ \E state \in DropletStates : DropletChanges(state)

DropletSpec == DropletInit /\ [][DropletNext]_vars

\* ---- relaunch
\* Repeated `up` runs while the provider moves instances on between runs.
RelaunchNext ==
    \/ \E cl \in Clusters, nm \in Names : UpStart(1, cl, nm, MaxLaunches)
    \/ UpStep(1)
    \/ \E state \in NON_TERMINATED_STATES \cup {"terminated"} : InstanceChanges(state)

RelaunchSpec == Init /\ [][RelaunchNext]_vars

PruneNext ==
    \/ \E nm \in Names : UpBeforePrune("a", nm)
    \/ UpStep(1)
    \/ \E state \in NON_TERMINATED_STATES \cup {"terminated"} : InstanceChanges(state)
    \/ \E force \in BOOLEAN : PruneStart("a", force, MaxPrunes)
    \/ PruneStep
    \/ \E call \in TeardownCalls : ExternalRemove(call)
    \/ ExternalSetMain

PruneSpec == Init /\ [][PruneNext]_vars

\* The verdict synthesis over every combination of its inputs.
HealthInit ==
    /\ vpcs = {} /\ subnets = {} /\ igws = {} /\ rts = {} /\ sgs = {}
    /\ keys = {} /\ instances = {}
    /\ nextId = [k \in Kinds \cup {"instance"} |-> 1]
    /\ run = [r \in Runners |-> IdleRun]
    /\ runs = 0
    /\ external = 0
    /\ ensured = [c \in Clusters |-> [k \in Kinds |-> NoId]]
    /\ aborted = [cluster |-> "a", pc |-> "none"]
    /\ prune = IdlePrune
    /\ \E st \in InstanceStates, ck \in ChecksTriState,
          sg \in SgPort22Status, pr \in ProbeOutcome :
         health = [pc |-> "gathered", instance_state |-> st, ec2_checks_pass |-> ck,
                   sg_port22 |-> sg, send_ssh_public_key |-> pr, summary |-> None]

HealthNext == Summarize

HealthSpec == HealthInit /\ [][HealthNext]_vars

\* =================================================================
\* Properties
\* =================================================================
\* The resources of set S carrying cluster c's Name (suffix) and Cluster tags.
TaggedFor(S, c, suffix) == {x \in S : x.Name = <<c, suffix>> /\ x.Cluster = c}

RequiredPorts == {22, 80, 443, 9090, 9091, 9092}

Wired(c) ==
    \E v \in vpcs, s \in subnets, g \in igws, t \in rts, f \in sgs :
        /\ TaggedFor(vpcs, c, "vpc") = {v}
        /\ TaggedFor(subnets, c, "subnet") = {s}
        /\ TaggedFor(igws, c, "igw") = {g}
        /\ TaggedFor(rts, c, "rt") = {t}
        /\ TaggedFor(sgs, c, "sg") = {f}
        /\ v.id \in g.attachments
        /\ t.route = {g.id}
        /\ s.id \in t.associations
        /\ \A o \in rts : s.id \in o.associations => o = t
        /\ RequiredPorts \subseteq f.ingress

\* C1: under sequential `up` runs with no outside mutation -- so from every
\* state an earlier run left by aborting at any of its calls -- a run that
\* reaches the launch step finds exactly one VPC, subnet, gateway, route
\* table and security group tagged for its cluster, the gateway attached to
\* the VPC, the table routing 0.0.0.0/0 to the gateway and associated with
\* the subnet, and ports 22, 80, 443, 9090, 9091, 9092 authorized; and a run
\* stops before launch only when a provider call failed or the instance
\* name is taken, never because of the state the earlier run left: at every
\* network step the run can go on when its call succeeds.
C1_ConvergesAfterPartialFailure ==
    \A r \in Runners :
        /\ run[r].pc = "launch" => Wired(run[r].cluster)
        /\ run[r].pc = "failed" =>
               run[r].err \in {"provider", "instance name already exists"}
        /\ run[r].pc \in NetworkPcs \cup {"resolve_ami"} =>
               ENABLED (UpStep(r) /\ run'[r].pc # "failed")

C1_Witness ==
    /\ run[1].pc = "launch"
    /\ runs >= 2
    /\ aborted.cluster = run[1].cluster
    /\ aborted.pc = "association"

\* C2: under sequential `up` runs, each of which may abort at any call, the
\* provider never holds two resources of one kind with a cluster's Name and
\* Cluster tags.
C2_NoDuplication ==
    \A c \in Clusters :
        /\ Cardinality(TaggedFor(vpcs, c, "vpc")) <= 1
        /\ Cardinality(TaggedFor(subnets, c, "subnet")) <= 1
        /\ Cardinality(TaggedFor(igws, c, "igw")) <= 1
        /\ Cardinality(TaggedFor(rts, c, "rt")) <= 1
        /\ Cardinality(TaggedFor(sgs, c, "sg")) <= 1

C2_Witness ==
    /\ runs = MaxRuns
    /\ run[1].pc = "done"
    /\ aborted.cluster = run[1].cluster
    /\ aborted.pc = "create_sg"
    /\ \A c \in Clusters : Cardinality(TaggedFor(vpcs, c, "vpc")) = 1

\* C3: once ensure(K) has returned an id for a cluster, every later
\* ensure(K) for that cluster returns the same id, and no later run reaches
\* the create call of K.
CreatePc(k) == "create_" \o k

C3_EnsureIdempotent ==
    /\ [][\A c \in Clusters, k \in Kinds :
            ensured[c][k] # NoId => ensured'[c][k] = ensured[c][k]]_vars
    /\ [](\A r \in Runners, k \in Kinds :
            ensured[run[r].cluster][k] # NoId => run[r].pc # CreatePc(k))

C3_Witness ==
    /\ aborted.cluster = run[1].cluster
    /\ aborted.pc = "launch"
    /\ run[1].pc = "key_exists"
    /\ \A k \in Kinds : ensured[run[1].cluster][k] # NoId

\* C4: a find step that gets its describe answer goes by the number of
\* resources carrying both Name = "{cluster}-{suffix}" and Cluster = cluster:
\* none -> None (the caller goes on to create), one -> that resource's id,
\* two or more -> the ambiguity error, with no id bound.
FindOutcome(r, pcn, S, suffix, field, what) ==
    (run[r].pc = pcn /\ run'[r].pc # pcn /\ run'[r].err # "provider") =>
        LET m == TaggedFor(S, run[r].cluster, suffix) IN
            /\ Cardinality(m) = 0 => run'[r].pc = CreatePc(suffix)
            /\ Cardinality(m) = 1 =>
                   /\ run'[r].pc \notin {CreatePc(suffix), "failed"}
                   /\ \E x \in m : run'[r][field] = x.id
            /\ Cardinality(m) >= 2 =>
                   /\ run'[r].pc = "failed"
                   /\ run'[r].err = what
                   /\ run'[r][field] = NoId

C4_FindByMatchCount ==
    [][\A r \in Runners :
         /\ FindOutcome(r, "find_vpc", vpcs, "vpc", "vpc_id", "multiple VPCs found")
         /\ FindOutcome(r, "find_subnet", subnets, "subnet", "subnet_id",
                        "multiple subnets found")
         /\ FindOutcome(r, "find_igw", igws, "igw", "igw_id",
                        "multiple internet gateways found")
         /\ FindOutcome(r, "find_rt", rts, "rt", "route_table_id",
                        "multiple route tables found")
         /\ FindOutcome(r, "find_sg", sgs, "sg", "sg_id",
                        "multiple security groups found")]_vars

C4_Witness ==
    /\ run[1].pc = "failed"
    /\ run[1].err = "multiple security groups found"
    /\ Cardinality(TaggedFor(sgs, run[1].cluster, "sg")) = 2
    /\ Cardinality(TaggedFor(vpcs, run[1].cluster, "vpc")) = 1

\* ---- verdict rules (HealthSpec)
Verdict == CHOOSE v \in health.summary : TRUE
Judged == health.pc = "done"

\* C5: any state other than running gives Unreachable, Some(false),
\* instance-not-running, whatever the checks, probe and posture.
C5_NotRunningFirst ==
    (Judged /\ health.instance_state # "running") =>
        /\ Verdict.level = "Unreachable"
        /\ Verdict.ssh_local_problem_likely = Some(FALSE)
        /\ Verdict.notes = "instance-not-running"

C5_Witness ==
    /\ Judged
    /\ health.instance_state = "stopped"
    /\ health.ec2_checks_pass = Some(FALSE)
    /\ health.send_ssh_public_key = "Success"
    /\ health.sg_port22 = "Closed"
    /\ Verdict.level = "Unreachable"

\* C6: running, checks Some(true), probe Success gives Ok, Some(true),
\* aws-control-plane-probe-succeeded for every posture, closed included.
C6_ProbeOkBeforeClosed ==
    (/\ Judged
     /\ health.instance_state = "running"
     /\ health.ec2_checks_pass = Some(TRUE)
     /\ health.send_ssh_public_key = "Success") =>
        /\ Verdict.level = "Ok"
        /\ Verdict.ssh_local_problem_likely = Some(TRUE)
        /\ Verdict.notes = "aws-control-plane-probe-succeeded"

C6_Witness ==
    /\ Judged
    /\ health.instance_state = "running"
    /\ health.ec2_checks_pass = Some(TRUE)
    /\ health.send_ssh_public_key = "Success"
    /\ health.sg_port22 = "Closed"
    /\ Verdict.level = "Ok"

\* C7: running with checks Some(false) gives Degraded, Some(false),
\* ec2-status-checks-not-passing for every probe outcome and posture.
C7_ChecksFailing ==
    (/\ Judged
     /\ health.instance_state = "running"
     /\ health.ec2_checks_pass = Some(FALSE)) =>
        /\ Verdict.level = "Degraded"
        /\ Verdict.ssh_local_problem_likely = Some(FALSE)
        /\ Verdict.notes = "ec2-status-checks-not-passing"

C7_Witness ==
    /\ Judged
    /\ health.instance_state = "running"
    /\ health.ec2_checks_pass = Some(FALSE)
    /\ health.send_ssh_public_key = "Success"
    /\ health.sg_port22 = "Closed"
    /\ Verdict.notes = "ec2-status-checks-not-passing"

\* C8: running, posture closed, checks not Some(false), and not (checks
\* Some(true) with probe Success) gives Degraded, Some(false),
\* security-group-port-22-closed; with checks None too.
C8_ClosedRule ==
    (/\ Judged
     /\ health.instance_state = "running"
     /\ health.sg_port22 = "Closed"
     /\ health.ec2_checks_pass # Some(FALSE)
     /\ ~(health.ec2_checks_pass = Some(TRUE) /\ health.send_ssh_public_key = "Success")) =>
        /\ Verdict.level = "Degraded"
        /\ Verdict.ssh_local_problem_likely = Some(FALSE)
        /\ Verdict.notes = "security-group-port-22-closed"

C8_Witness ==
    /\ Judged
    /\ health.instance_state = "running"
    /\ health.sg_port22 = "Closed"
    /\ health.ec2_checks_pass = None
    /\ health.send_ssh_public_key = "Success"
    /\ Verdict.notes = "security-group-port-22-closed"

\* C9: running, posture not closed, checks None gives local-problem None;
\* Degraded / ec2-status-checks-unknown when the probe is Success, Unknown /
\* ec2-status-checks-unknown-and-no-remote-probe-confirmation otherwise.
C9_ChecksUnknown ==
    (/\ Judged
     /\ health.instance_state = "running"
     /\ health.sg_port22 # "Closed"
     /\ health.ec2_checks_pass = None) =>
        /\ Verdict.ssh_local_problem_likely = None
        /\ health.send_ssh_public_key = "Success" =>
               /\ Verdict.level = "Degraded"
               /\ Verdict.notes = "ec2-status-checks-unknown"
        /\ health.send_ssh_public_key \in {"Failed", "Skipped"} =>
               /\ Verdict.level = "Unknown"
               /\ Verdict.notes =
                      "ec2-status-checks-unknown-and-no-remote-probe-confirmation"

C9_Witness ==
    /\ Judged
    /\ health.instance_state = "running"
    /\ health.sg_port22 = "OpenWorld"
    /\ health.ec2_checks_pass = None
    /\ health.send_ssh_public_key = "Success"
    /\ Verdict.level = "Degraded"
    /\ Verdict.ssh_local_problem_likely = None

\* C10 as stated: running, checks None, probe Skipped gives Unknown with
\* local-problem None for every posture.
C10_AsStated ==
    (/\ Judged
     /\ health.instance_state = "running"
     /\ health.ec2_checks_pass = None
     /\ health.send_ssh_public_key = "Skipped") =>
        /\ Verdict.level = "Unknown"
        /\ Verdict.ssh_local_problem_likely = None

\* C10: running, checks None, probe Skipped gives Unknown with local-problem
\* None for every posture other than closed; with posture closed the closed
\* rule comes first and the verdict is Degraded, Some(false),
\* security-group-port-22-closed.
C10_UnknownUnlessClosed ==
    (/\ Judged
     /\ health.instance_state = "running"
     /\ health.ec2_checks_pass = None
     /\ health.send_ssh_public_key = "Skipped") =>
        IF health.sg_port22 = "Closed"
        THEN /\ Verdict.level = "Degraded"
             /\ Verdict.ssh_local_problem_likely = Some(FALSE)
             /\ Verdict.notes = "security-group-port-22-closed"
        ELSE /\ Verdict.level = "Unknown"
             /\ Verdict.ssh_local_problem_likely = None

C10_Witness ==
    /\ Judged
    /\ health.instance_state = "running"
    /\ health.ec2_checks_pass = None
    /\ health.send_ssh_public_key = "Skipped"
    /\ health.sg_port22 = "Closed"
    /\ Verdict.level = "Degraded"

\* C11: running, checks Some(true), probe Failed or Skipped, posture not
\* closed gives Degraded, Some(false),
\* instance-running-but-remote-probe-not-confirmed; and every input gets
\* exactly one verdict, which is one of the verdicts of the six rules.
RuleVerdicts ==
    {VNotRunning, VChecksFailing, VProbeOk, VClosed,
     VChecksUnknown(TRUE), VChecksUnknown(FALSE), VFallback}

C11_FallbackAndTotal ==
    Judged =>
        /\ Cardinality(health.summary) = 1
        /\ Verdict \in RuleVerdicts
        /\ (/\ health.instance_state = "running"
            /\ health.ec2_checks_pass = Some(TRUE)
            /\ health.send_ssh_public_key \in {"Failed", "Skipped"}
            /\ health.sg_port22 # "Closed") =>
               /\ Verdict.level = "Degraded"
               /\ Verdict.ssh_local_problem_likely = Some(FALSE)
               /\ Verdict.notes = "instance-running-but-remote-probe-not-confirmed"

C11_Witness ==
    /\ Judged
    /\ health.instance_state = "running"
    /\ health.ec2_checks_pass = Some(TRUE)
    /\ health.send_ssh_public_key = "Skipped"
    /\ health.sg_port22 = "Unknown"
    /\ Verdict.notes = "instance-running-but-remote-probe-not-confirmed"

\* The classification of the groups attached to an instance, over group
\* lists of every shape.
ClassifyInit ==
    /\ vpcs = {} /\ subnets = {} /\ igws = {} /\ rts = {} /\ sgs = {}
    /\ keys = {} /\ instances = {}
    /\ nextId = [k \in Kinds \cup {"instance"} |-> 1]
    /\ run = [r \in Runners |-> IdleRun]
    /\ runs = 0
    /\ external = 0
    /\ ensured = [c \in Clusters |-> [k \in Kinds |-> NoId]]
    /\ aborted = [cluster |-> "a", pc |-> "none"]
    /\ prune = IdlePrune
    /\ health = [pc |-> "describing", security_groups |-> <<>>, sg_port22 |-> None]

ClassifyNext ==
    \/ \E has_list \in BOOLEAN : DescribeGroup(has_list)
    \/ \E permission \in Permissions : DescribePermission(permission)
    \/ Classify

ClassifySpec == ClassifyInit /\ [][ClassifyNext]_vars

\* ------------------------------------------------ port-22 classification
\* What the statements call a rule, its port range and its sources, read off
\* the reported permissions without the classifier's loops.
Elems(opt) == UNION {{v[i] : i \in 1..Len(v)} : v \in opt}

AllRules(security_groups) ==
    UNION {Elems(security_groups[g].ip_permissions) : g \in 1..Len(security_groups)}

MatchesPort22(rule) ==
    \/ rule.ip_protocol = Some("-1")
    \/ /\ rule.ip_protocol \in {Some("tcp"), Some("TCP")}
       /\ \A from \in rule.from_port : from <= 22
       /\ \A to \in rule.to_port : 22 <= to

WildcardSource(rule) ==
    \/ \E range \in Elems(rule.ip_ranges) : range.cidr_ip = Some("0.0.0.0/0")
    \/ \E range \in Elems(rule.ipv6_ranges) : range.cidr_ipv6 = Some("::/0")

ConcreteSource(rule) ==
    \/ \E range \in Elems(rule.ip_ranges) : range.cidr_ip # None
    \/ \E range \in Elems(rule.ipv6_ranges) : range.cidr_ipv6 # None
    \/ \E pair \in Elems(rule.user_id_group_pairs) : pair.group_id # None
    \/ \E prefix \in Elems(rule.prefix_list_ids) : prefix.prefix_list_id # None

Orders(n) == {f \in [1..n -> 1..n] : \A i, j \in 1..n : f[i] = f[j] => i = j}
Reorder(seq, f) == [i \in 1..Len(seq) |-> seq[f[i]]]

Classified == health.pc = "classified"
Classification == CHOOSE c \in health.sg_port22 : TRUE

\* C12: the classification is open-world exactly when some rule covering
\* port 22 (protocol -1, or tcp with from <= 22 <= to, an absent bound not
\* constraining) has the IPv4 or IPv6 wildcard among its sources, and
\* reordering the groups, or the rules inside any group, never changes it.
C12_OpenWorldIffAndOrderFree ==
    Classified =>
        LET groups == health.security_groups IN
        /\ Classification = "OpenWorld" <=>
               \E rule \in AllRules(groups) : MatchesPort22(rule) /\ WildcardSource(rule)
        /\ \A f \in Orders(Len(groups)) :
               classify_sg_port_22(Reorder(groups, f)) = Classification
        /\ \A g \in 1..Len(groups) : \A rules \in groups[g].ip_permissions :
               \A f \in Orders(Len(rules)) :
                   classify_sg_port_22([groups EXCEPT ![g].ip_permissions =
                                            Some(Reorder(rules, f))]) = Classification

\* An open-world verdict found only in the second group, after a restricted
\* rule in the first, and through the IPv6 wildcard.
C12_Witness ==
    /\ Classified
    /\ Classification = "OpenWorld"
    /\ Len(health.security_groups) = 2
    /\ \E rule \in Elems(health.security_groups[1].ip_permissions) :
           MatchesPort22(rule) /\ ConcreteSource(rule) /\ ~WildcardSource(rule)
    /\ \E rule \in Elems(health.security_groups[2].ip_permissions) :
           /\ MatchesPort22(rule)
           /\ \E range \in Elems(rule.ipv6_ranges) : range.cidr_ipv6 = Some("::/0")

\* C13: no group at all gives unknown; groups without any rule covering port
\* 22 give closed; groups whose covering rules carry no wildcard but at least
\* one concrete source (IPv4 range, IPv6 range, group reference or prefix
\* list) give restricted.
C13_UnknownClosedRestricted ==
    Classified =>
        LET groups == health.security_groups
            covering == {rule \in AllRules(groups) : MatchesPort22(rule)}
        IN  /\ Len(groups) = 0 => Classification = "Unknown"
            /\ (Len(groups) > 0 /\ covering = {}) => Classification = "Closed"
            /\ ( /\ \A rule \in covering : ~WildcardSource(rule)
                 /\ \E rule \in covering : ConcreteSource(rule) )
               => Classification = "Restricted"

\* Restricted through a group reference alone, next to a wildcard rule for
\* another port.
C13_Witness ==
    /\ Classified
    /\ Classification = "Restricted"
    /\ \E rule \in AllRules(health.security_groups) :
           /\ MatchesPort22(rule)
           /\ Elems(rule.user_id_group_pairs) # {}
           /\ Elems(rule.ip_ranges) = {} /\ Elems(rule.ipv6_ranges) = {}
    /\ \E rule \in AllRules(health.security_groups) :
           ~MatchesPort22(rule) /\ WildcardSource(rule)

\* The status checks of an instance, over every provider answer.
StatusInit ==
    /\ vpcs = {} /\ subnets = {} /\ igws = {} /\ rts = {} /\ sgs = {}
    /\ keys = {} /\ instances = {}
    /\ nextId = [k \in Kinds \cup {"instance"} |-> 1]
    /\ run = [r \in Runners |-> IdleRun]
    /\ runs = 0
    /\ external = 0
    /\ ensured = [c \in Clusters |-> [k \in Kinds |-> NoId]]
    /\ aborted = [cluster |-> "a", pc |-> "none"]
    /\ prune = IdlePrune
    /\ \E state \in {"running", "stopped"},
          entry \in {None} \cup {Some([system_status |-> s, instance_status |-> i]) :
                                    s \in StatusSummaries, i \in StatusSummaries} :
           health = [pc |-> "status", instance_state |-> state,
                     status_entry |-> entry, ec2_checks |-> None]

StatusNext == describe_ec2_status_checks

StatusSpec == StatusInit /\ [][StatusNext]_vars

\* ------------------------------------------------------- status checks
Checked == health.pc = "checked"
Checks == CHOOSE c \in health.ec2_checks : TRUE

\* What the provider reported for one sub-status: the status string without
\* its padding, and unknown when the summary or its string is missing or
\* blank.
Reported(summary) ==
    LET strings == {s.status : s \in summary}
        given == {trim(x) : x \in UNION strings} \ {""}
    IN  IF given = {} THEN "unknown" ELSE CHOOSE x \in given : TRUE

\* C14: for the pair of sub-statuses the provider reports for the instance,
\* the tri-state is Some(true) exactly when both are ok, None whenever either
\* is unknown, whatever the other is, and Some(false) for every other pair.
C14_StatusTriState ==
    (Checked /\ health.status_entry # None) =>
        LET entry == CHOOSE e \in health.status_entry : TRUE
            system == Reported(entry.system_status)
            instance == Reported(entry.instance_status)
        IN  /\ Checks.system_status = system /\ Checks.instance_status = instance
            /\ Checks.checks_pass = Some(TRUE) <=> (system = "ok" /\ instance = "ok")
            /\ (system = "unknown" \/ instance = "unknown") => Checks.checks_pass = None
            /\ ( /\ ~(system = "ok" /\ instance = "ok")
                 /\ system # "unknown" /\ instance # "unknown" )
               => Checks.checks_pass = Some(FALSE)

\* An impaired system sub-status beside an unknown instance sub-status.
C14_Witness ==
    /\ Checked
    /\ health.status_entry =
           Some([system_status |-> Some(Ec2StatusSummary(Some("impaired"))),
                 instance_status |-> Some(Ec2StatusSummary(Some("unknown")))])
    /\ Checks.checks_pass = None

\* The probe and the verdict of `health`, over every instance, local key
\* and provider answer.
ProbeInit ==
    /\ vpcs = {} /\ subnets = {} /\ igws = {} /\ rts = {} /\ sgs = {}
    /\ keys = {} /\ instances = {}
    /\ nextId = [k \in Kinds \cup {"instance"} |-> 1]
    /\ run = [r \in Runners |-> IdleRun]
    /\ runs = 0
    /\ external = 0
    /\ ensured = [c \in Clusters |-> [k \in Kinds |-> NoId]]
    /\ aborted = [cluster |-> "a", pc |-> "none"]
    /\ prune = IdlePrune
    /\ \E st \in InstanceStates, ip \in {None, Some(""), Some(" "), Some("203.0.113.10")},
          az \in {None, Some("us-east-1a")}, key \in BOOLEAN,
          ck \in ChecksTriState, sg \in {"OpenWorld", "Closed"} :
         health = [pc |-> "probe", instance_state |-> st, public_ip |-> ip,
                   availability_zone |-> az, public_key_exists |-> key,
                   ec2_checks_pass |-> ck, sg_port22 |-> sg,
                   sent |-> FALSE, output |-> None, eic_probe |-> None,
                   summary |-> None, err |-> None]

ProbeNext == \E output \in Outputs : run_eic_probe(output)

ProbeSpec == ProbeInit /\ [][ProbeNext]_vars

\* ------------------------------------------------------------ the probe
Probed == health.pc \in {"done", "failed"}
ProbeResult == CHOOSE p \in health.eic_probe : TRUE

\* C15: the probe call is issued exactly when the instance is running, has a
\* public address, has a placement zone and the local public key exists;
\* otherwise the probe is skipped with the reason of the first flag that is
\* false, in that order.
C15_SkipPrecedence ==
    Probed =>
        LET running == health.instance_state = "running"
            has_ip == health.public_ip \in {Some("203.0.113.10")}
            has_zone == health.availability_zone # None
            has_key == health.public_key_exists
            first_false ==
                CASE ~running -> "instance-not-running"
                  [] running /\ ~has_ip -> "no-public-ip"
                  [] running /\ has_ip /\ ~has_zone -> "availability-zone-missing"
                  [] OTHER -> "ssh-public-key-not-found"
        IN  /\ health.sent <=> (running /\ has_ip /\ has_zone /\ has_key)
            /\ ~health.sent =>
                 /\ health.pc = "done"
                 /\ ProbeResult.send_ssh_public_key = "Skipped"
                 /\ ProbeResult.send_ssh_public_key_reason = Some(first_false)

\* A running instance with a public address, without a zone and without
\* the local key: the zone wins.
C15_Witness ==
    /\ Probed
    /\ health.instance_state = "running"
    /\ health.public_ip = Some("203.0.113.10")
    /\ health.availability_zone = None
    /\ ~health.public_key_exists
    /\ ProbeResult.send_ssh_public_key_reason = Some("availability-zone-missing")

\* The provider's failures of the access-denied class.
AccessDeniedTexts ==
    {"An error occurred (AccessDeniedException) when calling SendSSHPublicKey",
     "Access Denied",
     "An error occurred (UnauthorizedOperation)",
     "User is not authorized to perform ec2-instance-connect:SendSSHPublicKey"}

ProviderFailure == health.sent /\ \E o \in health.output : ~o.success
AccessDenied ==
    \E o \in health.output : o.stderr \in AccessDeniedTexts \/ o.stdout \in AccessDeniedTexts

\* C16: when the probe call is issued and the provider fails it, a failure
\* of the access-denied class ends `health` with an error and without a
\* verdict or a probe outcome, and any other failure gives the outcome
\* Failed with the provider's error text as its reason, and a verdict.
C16_ProbeFailureClasses ==
    (Probed /\ ProviderFailure) =>
        IF AccessDenied
        THEN /\ health.pc = "failed"
             /\ health.err # None
             /\ health.summary = None
             /\ health.eic_probe = None
        ELSE /\ health.pc = "done"
             /\ ProbeResult.send_ssh_public_key = "Failed"
             /\ \E o \in health.output :
                  ProbeResult.send_ssh_public_key_reason =
                      Some(IF o.stderr = "" THEN <<"unknown aws cli error">> ELSE <<o.stderr>>)
             /\ Cardinality(health.summary) = 1

\* An unauthorized-operation failure of the issued call ends the operation.
C16_Witness ==
    /\ Probed /\ ProviderFailure /\ AccessDenied
    /\ health.pc = "failed"
    /\ \E o \in health.output : o.stderr = "An error occurred (UnauthorizedOperation)"

\* ---- teardown (PruneSpec)
\* The instances that block a prune of the VPC.
LiveInstances(vpc_id) ==
    {i \in instances :
        /\ i.state \in {"pending", "running", "stopping", "stopped", "shutting-down"}
        /\ \E s \in subnets : s.id = i.subnet /\ s.vpc = vpc_id}

\* C17: when prune looks for instances and the cluster's VPC holds one that
\* is pending, running, stopping, stopped or shutting down, prune ends with
\* an error there: it has not prompted, it has issued no disassociate,
\* detach or delete call, and the provider's state is as it was.
C17_InstancesBlockPrune ==
    [][ ( /\ prune.pc = "describe_instances"
          /\ prune'.pc # "describe_instances"
          /\ LiveInstances(prune.vpc_id) # {} )
        => ( /\ prune'.pc = "failed"
             /\ prune'.err # "none"
             /\ prune'.calls = <<>>
             /\ ~prune'.prompted
             /\ UNCHANGED provider ) ]_vars

\* A stopped instance made prune refuse.
C17_Witness ==
    /\ prune.pc = "failed"
    /\ prune.err = "cannot prune while instances exist"
    /\ prune.calls = <<>>
    /\ \E i \in instances : i.state = "stopped"

TeardownOrder ==
    <<"disassociate-route-table", "delete-route-table", "delete-subnet",
      "detach-internet-gateway", "delete-internet-gateway",
      "delete-security-group", "delete-vpc", "delete-key-pair">>

Rank(call) == CHOOSE n \in 1..Len(TeardownOrder) : TeardownOrder[n] = call

\* C18: the teardown calls of one prune are issued in the order
\* disassociate, delete route table, delete subnet, detach gateway, delete
\* gateway, delete firewall group, delete VPC, delete keypair (only the
\* disassociate, one per non-main association, may repeat), and delete-vpc
\* is issued only once each of the route table, subnet, gateway and
\* firewall-group steps was issued or its resource found absent.
C18_TeardownOrder ==
    /\ \A i, j \in 1..Len(prune.calls) :
         i < j => \/ Rank(prune.calls[i]) < Rank(prune.calls[j])
                  \/ /\ prune.calls[i] = "disassociate-route-table"
                     /\ prune.calls[j] = "disassociate-route-table"
    /\ (\E i \in 1..Len(prune.calls) : prune.calls[i] = "delete-vpc")
         => {"rt", "subnet", "igw", "sg"} \subseteq prune.settled

\* A complete prune: all eight calls, each once, in order.
C18_Witness ==
    /\ prune.pc = "done"
    /\ prune.outcome = "pruned"
    /\ prune.calls = TeardownOrder

\* The answers by which the provider says the target of a call is gone.
Gone(call) ==
    CASE call = "disassociate-route-table" -> {"InvalidAssociationID.NotFound"}
      [] call = "delete-route-table" -> {"InvalidRouteTableID.NotFound"}
      [] call = "delete-subnet" -> {"InvalidSubnetID.NotFound"}
      [] call = "detach-internet-gateway" ->
           {"Gateway.NotAttached", "InvalidInternetGatewayID.NotFound", "InvalidVpcID.NotFound"}
      [] call = "delete-internet-gateway" -> {"InvalidInternetGatewayID.NotFound"}
      [] call = "delete-security-group" -> {"InvalidGroup.NotFound"}
      [] call = "delete-vpc" -> {"InvalidVpcID.NotFound"}
      [] OTHER -> {"InvalidKeyPair.NotFound"}

\* C19: whenever a teardown step of prune (the keypair lookup included)
\* gets an answer, an answer that the target is gone does not end prune,
\* which goes on with the next step or finishes as pruned, and any other
\* failure ends prune with an error.
C19_GoneIsSuccess ==
    [][ ( /\ prune'.last # prune.last \/ prune'.calls # prune.calls
          /\ prune'.last.call \in TeardownCalls \cup {"describe-key-pairs"} )
        => LET answer == prune'.last IN
           /\ answer.response \in Gone(answer.call) =>
                /\ prune'.pc \notin {"failed", answer.call} \/ prune'.todo # {}
                /\ prune'.pc # "failed"
                /\ prune'.err = "none"
                /\ prune'.pc = "done" => prune'.outcome = "pruned"
           /\ answer.response \notin Gone(answer.call) \cup {"ok"} =>
                /\ prune'.pc = "failed"
                /\ prune'.err # "none" ]_vars

\* The subnet vanished between find_subnet and delete-subnet, and prune
\* went on to the gateway.
C19_Witness ==
    /\ prune.last = [call |-> "delete-subnet", response |-> "InvalidSubnetID.NotFound"]
    /\ prune.pc = "find_igw"

\* What belongs to cluster c at the provider.
Leftovers(c) ==
    TaggedFor(vpcs, c, "vpc") \cup TaggedFor(subnets, c, "subnet")
    \cup TaggedFor(igws, c, "igw") \cup TaggedFor(rts, c, "rt")
    \cup TaggedFor(sgs, c, "sg") \cup {k \in keys : k = <<c, "key">>}

\* C20: once a prune with --force has returned success for a cluster, the
\* provider holds no VPC, subnet, gateway, route table, firewall group or
\* keypair of that cluster, whatever state the prune started from.
C20_PruneComplete ==
    (prune.pc = "done" /\ prune.force) => Leftovers(prune.cluster) = {}

\* ---------------------------------------------------------------- C21
\* The instances carrying the Name and Cluster tags of process r's run.
Namesakes(r) ==
    {i \in instances : i.Name = run[r].name /\ i.Cluster = run[r].cluster}

\* The steps of `up` that come before run-instances.
BeforeLaunch ==
    {"banner", "dup_check"} \cup NetworkPcs \cup {"resolve_ami", "launch"}

\* The run-instances calls answered so far.
Launches == nextId["instance"] - 1

\* C21: when the duplicate check of `up` finds an instance with the run's
\* Name and Cluster tags in a state other than terminated, the run ends
\* there and no instance is launched; when every such instance is
\* terminated (or there is none) the check lets the run go on; instances
\* appear only by the launch step, one at a time, tagged as the run asks;
\* and a run launches at most once, a completed run exactly once.
C21_DuplicateLaunchGuard ==
    /\ [][\A r \in {1} :
            /\ (run[r].pc = "dup_check"
                 /\ \E i \in Namesakes(r) : i.state \in NON_TERMINATED_STATES)
               => /\ run'[r].pc = "failed"
                  /\ run'[r].err \in {"instance name already exists", "provider"}
                  /\ instances' = instances
            /\ (run[r].pc = "dup_check"
                 /\ \A i \in Namesakes(r) : i.state = "terminated")
               => \/ run'[r].pc = "find_vpc"
                  \/ run'[r].pc = "failed" /\ run'[r].err = "provider"
            /\ {i.id : i \in instances'} # {i.id : i \in instances}
               => /\ run[r].pc = "launch" /\ run'[r].pc = "wait_running"
                  /\ \E i \in instances' :
                       /\ instances' = instances \cup {i}
                       /\ i.id \notin {j.id : j \in instances}
                       /\ i.Name = run[r].name /\ i.Cluster = run[r].cluster]_vars
    /\ [](Launches <= runs - (IF run[1].pc \in BeforeLaunch THEN 1 ELSE 0))
    /\ [](run[1].pc = "done" => Launches >= 1)

\* A relaunch under the tags of a terminated instance has completed.
C21_Witness ==
    /\ run[1].pc = "done"
    /\ \E i \in Namesakes(1) : i.state = "terminated"
    /\ \E i \in Namesakes(1) : i.state = "running"

\* ---------------------------------------------------------------- C22
\* The default route of a table in a collection of route tables.
RouteOf(tables, route_table_id) ==
    UNION {t.route : t \in {u \in tables : u.id = route_table_id}}

\* C22: ensure_default_route on a table without a default route issues
\* create-route alone and succeeds; on a table with one (whatever its
\* target) it issues create-route, then exactly one replace-route, and
\* succeeds when the replace does; whenever it succeeds the table's default
\* route targets the given gateway; when create-route fails for a reason
\* other than the route existing, it fails having issued create-route
\* alone and the tables are as before.
C22_DefaultRouteConverges ==
    health.op = "ensure_default_route" =>
      LET had == RouteOf(health.before, health.args[1]) # {} IN
        /\ (~had /\ health.fault # 1)
             => health.result.ok /\ health.calls = <<"create-route">>
        /\ (had /\ health.fault = 0)
             => health.result.ok /\ health.calls = <<"create-route", "replace-route">>
        /\ health.result.ok => RouteOf(rts, health.args[1]) = {health.args[2]}
        /\ health.fault = 1
             => /\ ~health.result.ok
                /\ health.calls = <<"create-route">>
                /\ rts = health.before

\* A default route that targeted another gateway has been replaced.
C22_Witness ==
    /\ health.op = "ensure_default_route"
    /\ health.result.ok
    /\ RouteOf(health.before, health.args[1]) \notin {{}, {health.args[2]}}
    /\ health.calls = <<"create-route", "replace-route">>
    /\ RouteOf(rts, health.args[1]) = {health.args[2]}

\* ---------------------------------------------------------------- C27
\* The calls of a handler that change the provider's state.
Mutating(call) ==
    call \notin {"describe-route-tables", "describe-internet-gateways",
                 "describe-security-groups", "describe-key-pairs"}

\* The tables of a collection holding an association with the subnet.
HoldersOf(tables, subnet_id) ==
    {t.id : t \in {u \in tables : subnet_id \in u.associations}}

Located(gateways, cluster) ==
    {g \in gateways : g.Name = resource_name(cluster, "igw") /\ g.Cluster = cluster}

\* How often a call occurs among the calls issued.
Times(calls, call) == Cardinality({n \in 1..Len(calls) : calls[n] = call})

\* C28: ensure_internet_gateway issues attach-internet-gateway exactly when
\* it gets that far and the located gateway's attachment list does not
\* hold the target VPC: once for a gateway found without that attachment,
\* once for a gateway it has just created, never for a gateway found
\* attached to the VPC; it never issues more than one; and when it
\* succeeds the gateway it returns is attached to the target VPC.
C28_GatewayAttachment ==
    health.op = "ensure_internet_gateway" =>
      LET vpc_id == health.args[2]
          found == Located(health.before, health.args[1])
          attaches == Times(health.calls, "attach-internet-gateway")
      IN  /\ attaches <= 1
          /\ (Cardinality(found) = 1 /\ health.fault # 1)
               => (attaches = 1 <=> \A g \in found : vpc_id \notin g.attachments)
          /\ (\E g \in found : vpc_id \in g.attachments) => attaches = 0
          /\ (found = {} /\ health.fault \notin {1, 2})
               => /\ attaches = 1
                  /\ Times(health.calls, "create-internet-gateway") = 1
          /\ health.result.ok
               => \E g \in igws : g.id = health.result.value /\ vpc_id \in g.attachments

\* A gateway found unattached has been attached to the cluster's VPC.
C28_Witness ==
    /\ health.op = "ensure_internet_gateway"
    /\ health.result.ok
    /\ \E g \in Located(health.before, health.args[1]) : g.attachments = {}
    /\ health.calls = <<"describe-internet-gateways", "attach-internet-gateway">>
    /\ \E g \in igws : g.id = health.result.value /\ g.attachments = {health.args[2]}

\* ---------------------------------------------------------------- C29
\* The authorize calls for all the ports, in the order of the source.
AllPorts == [n \in 1..Len(SgPorts) |-> AuthorizeIngress(SgPorts[n])]

IsAuthorize(call) == \E n \in 1..Len(SgPorts) : call = AuthorizeIngress(SgPorts[n])

\* The groups of a collection tagged for the cluster of the call.
LocatedGroups(groups, cluster) ==
    {g \in groups : g.Name = resource_name(cluster, "sg") /\ g.Cluster = cluster}

\* C29: the authorize calls ensure_security_group issues are always the
\* ports 22, 80, 443, 9090, 9091, 9092 in that order, up to the first one
\* that fails for a reason other than a duplicate permission; when it
\* succeeds, after a find as after a create, it has issued all six and the
\* group holds all six rules; on a group that already holds them all it
\* succeeds and leaves the groups as they were; and a call failing for
\* another reason is the last call it issues.
C29_GroupConverges ==
    health.op = "ensure_security_group" =>
      LET authorizes == SelectSeq(health.calls, IsAuthorize)
          found == LocatedGroups(health.before, health.args[1])
      IN  /\ Len(authorizes) <= Len(AllPorts)
          /\ authorizes = SubSeq(AllPorts, 1, Len(authorizes))
          /\ health.result.ok
               => /\ authorizes = AllPorts
                  /\ \E g \in sgs : /\ g.id = health.result.value
                                     /\ \A n \in 1..Len(SgPorts) : SgPorts[n] \in g.ingress
          /\ (Cardinality(found) = 1 /\ health.fault = 0)
               => health.result.ok /\ Len(health.calls) = 1 + Len(AllPorts)
          /\ (/\ health.fault = 0
              /\ \E g \in found : \A n \in 1..Len(SgPorts) : SgPorts[n] \in g.ingress
              /\ Cardinality(found) = 1)
               => health.result.ok /\ sgs = health.before
          /\ (health.fault > 0 /\ Len(health.calls) >= health.fault)
               => ~health.result.ok /\ Len(health.calls) = health.fault

\* A group found with some of the rules has been given the others.
C29_Witness ==
    /\ health.op = "ensure_security_group"
    /\ health.result.ok
    /\ \E g \in LocatedGroups(health.before, health.args[1]) : g.ingress = {22, 80}
    /\ SelectSeq(health.calls, IsAuthorize) = AllPorts
    /\ \E g \in sgs : g.id = health.result.value /\ Cardinality(g.ingress) = Len(SgPorts)

\* ---------------------------------------------------------------- C24
\* The provider's texts for "this is there already".
ConflictSignals ==
    RouteConflicts \cup {"Resource.AlreadyAssociated", "InvalidPermission.Duplicate",
                         "InvalidGroup.Duplicate", "InvalidKeyPair.Duplicate"}

\* C24: no ensure handler of `up` fails because the provider answered one
\* of its create, attach, authorize or import calls with an already-exists,
\* already-associated or duplicate signal.
C24_ConflictsAbsorbed ==
    health.op # "none" => (health.result.ok \/ health.result.error \notin ConflictSignals)

\* ---------------------------------------------------------------- C25
\* The positions at which no invocation is in progress.
Ended == {"idle", "done", "failed"}

\* C25: the step of `up` or `prune` in which an error arises (an ambiguous
\* find, live instances, a taken name, a refused or failed provider call
\* that no helper tolerates) ends the operation in error at once and
\* leaves the provider's state, with everything the run created or deleted
\* before, as it is; and an operation that has ended in error issues no
\* further call.
C25_FatalAbortsAtOnce ==
    /\ [][/\ (run[1].pc \notin Ended /\ run'[1].err # "none")
             => run'[1].pc = "failed" /\ provider' = provider
          /\ (prune.pc \notin Ended /\ prune'.err # "none")
             => /\ prune'.pc = "failed"
                /\ provider' = provider
                /\ prune'.settled = prune.settled
          /\ (prune.pc \notin Ended /\ prune'.last # prune.last
                /\ prune'.last.response \notin {"ok"} \cup Tolerated(prune'.last.call))
             => prune'.pc = "failed" /\ prune'.err # "none"]_vars
    /\ [](run[1].pc = "failed" => run[1].err # "none" /\ ~ENABLED UpStep(1))
    /\ [](prune.pc = "failed" => prune.err # "none" /\ ~ENABLED PruneStep)

\* Both an `up` and a later prune of the cluster have ended in error, the
\* prune after deleting some of the network.
C25_Witness ==
    /\ run[1].pc = "failed"
    /\ aborted.pc \in {"launch", "wait_running"}
    /\ prune.pc = "failed"
    /\ prune.settled # {}
    /\ vpcs # {}

\* ---------------------------------------------------------------- C30
\* What is left of a cluster's network (the keypair apart).
NetworkLeftovers(c) == Leftovers(c) \ {resource_name(c, "key")}

\* C30: a prune without --force asks before the first delete, and a
\* declined answer ends it with success ("aborted") with no delete call
\* issued and the provider untouched; it asks again after delete-vpc, and a
\* declined answer there ends it with success ("pruned") with the network
\* gone, no delete-key-pair issued and the keypair as it was; a prune with
\* --force never prompts, and when it reports "pruned" the keypair is gone.
C30_ConfirmationGates ==
    /\ [][/\ (prune.pc = "confirm" /\ prune' # prune /\ prune'.pc \in Ended)
              => /\ prune'.pc = "done" /\ prune'.outcome = "aborted"
                 /\ prune'.calls = <<>>
                 /\ provider' = provider
          /\ (prune.pc = "confirm_key" /\ prune' # prune
                /\ prune'.pc # "describe-key-pairs")
              => /\ prune'.pc = "done" /\ prune'.outcome = "pruned"
                 /\ NetworkLeftovers(prune.cluster) = {}
                 /\ \A n \in 1..Len(prune'.calls) : prune'.calls[n] # "delete-key-pair"
                 /\ provider' = provider]_vars
    /\ [](prune.outcome = "aborted"
            => prune.pc = "done" /\ ~prune.force /\ prune.prompted /\ prune.calls = <<>>)
    /\ [](prune.force => ~prune.prompted /\ prune.pc \notin {"confirm", "confirm_key"})
    /\ []((~prune.force /\ prune.calls # <<>>) => prune.prompted)
    /\ []((prune.force /\ prune.pc = "done" /\ prune.outcome = "pruned")
            => resource_name(prune.cluster, "key") \notin keys)

\* The overall prompt was accepted and the keypair prompt declined: the
\* network is gone and the keypair is still there.
C30_Witness ==
    /\ prune.pc = "done" /\ prune.outcome = "pruned"
    /\ ~prune.force /\ prune.prompted
    /\ prune.last.call = "delete-vpc"
    /\ NetworkLeftovers(prune.cluster) = {}
    /\ resource_name(prune.cluster, "key") \in keys

\* ---------------------------------------------------------------- C23
\* The non-terminated instances carrying the name the command was given,
\* in whatever cluster.
Homonyms == {i \in instances : i.Name = health.name /\ i.state \in NON_TERMINATED_STATES}

\* C23: the lookup of `destroy` and `reboot` goes by the Name tag among the
\* non-terminated instances, whatever their Cluster tag: with none it fails,
\* with two or more (also of different clusters) it fails as ambiguous, in
\* both cases with no terminate or reboot call issued and the instances
\* untouched; with exactly one, that instance is the one every later call
\* of the command is aimed at, whichever cluster the command was given.
C23_LookupByNameOnly ==
    /\ [][(health.pc = "find" /\ health' # health)
             => /\ instances' = instances
                /\ Homonyms = {}
                     => /\ health'.pc = "failed"
                        /\ health'.err \in {"no instance found", "provider"}
                /\ Cardinality(Homonyms) > 1
                     => /\ health'.pc = "failed"
                        /\ health'.err \in {"multiple instances found", "provider"}
                /\ Cardinality(Homonyms) = 1
                     => \/ health'.pc = "failed" /\ health'.err = "provider"
                        \/ /\ health'.pc \in {"confirm", "terminate", "reboot"}
                           /\ \A i \in Homonyms : health'.instance_id = i.id]_vars
    /\ [](health.err \in {"no instance found", "multiple instances found"}
            => health.pc = "failed" /\ health.calls = <<>>)
    /\ [](\A n \in 1..Len(health.calls) :
             /\ health.calls[n][2] = health.instance_id
             /\ \E i \in instances : i.id = health.instance_id /\ i.Name = health.name)

\* A reboot given cluster a has acted on the one instance of that name,
\* which is tagged for cluster b.
C23_Witness ==
    /\ health.op = "reboot" /\ health.pc = "done" /\ health.cluster = "a"
    /\ health.calls = <<<<"reboot-instances", health.instance_id>>>>
    /\ \E i \in instances : i.id = health.instance_id /\ i.Cluster = "b"

\* ---------------------------------------------------------------- C26
\* The spellings of one state name.
LetterCases ==
    {{"running", "Running", "RUNNING"}, {"active", "ACTIVE"}, {"provisioning", "PROVISIONING"}}

\* The poll found the instance in the expected state, letter case apart.
Observed(answer, expected_state) ==
    /\ answer.ok
    /\ \E state \in answer.value :
         \/ state = expected_state
         \/ \E spellings \in LetterCases : {state, expected_state} \subseteq spellings

\* C26: the wait loop never polls more than 60 times and each of its steps
\* is one poll; it is still polling only while no poll so far has failed
\* or found the instance in the expected state (compared without regard to
\* letter case), an instance not found counting as not yet there; it has
\* succeeded exactly at a poll that found the expected state; it has
\* failed with a timeout exactly after 60 polls of which the last did not
\* find it either; and it has failed with the locator's error at the poll
\* that failed.
C26_BoundedPollingWait ==
    /\ [][health.pc = "polling" => health'.polls = health.polls + 1]_vars
    /\ [](health.polls <= WaitPolls)
    /\ [](health.pc = "polling"
            => /\ health.polls < WaitPolls
               /\ health.polls > 0
                    => health.last.ok /\ ~Observed(health.last, health.expected_state))
    /\ [](health.pc = "done"
            => health.polls >= 1 /\ Observed(health.last, health.expected_state))
    /\ [](health.pc = "failed"
            => \/ /\ health.err = "timeout"
                  /\ health.polls = WaitPolls
                  /\ health.last.ok /\ ~Observed(health.last, health.expected_state)
               \/ /\ health.err = "locator"
                  /\ ~health.last.ok)

\* The last of the 60 polls found the instance in the expected state,
\* written in another letter case.
C26_Witness ==
    /\ health.pc = "done"
    /\ health.polls = WaitPolls
    /\ health.last.ok
    /\ health.expected_state \notin health.last.value

\* ---------------------------------------------------------------- C31
\* The call a step of the command has just issued, if it issued one.
Issued(name) ==
    /\ Len(health'.calls) = Len(health.calls) + 1
    /\ health'.calls[Len(health'.calls)][1] = name

\* C31: `destroy` issues terminate-instances only once the instance is
\* located and, unless --force was given, the prompt has been accepted; it
\* issues the wait for instance-terminated only right after a terminate
\* call that succeeded, for the same instance; a declined prompt ends the
\* command with success with neither call issued and the instances
\* untouched; and it reports "terminated" only once the wait has returned.
C31_DestroySequencing ==
    /\ [][/\ Issued("terminate-instances")
               => /\ health.pc = "terminate" /\ health.calls = <<>>
                  /\ health.force \/ health.answer = {TRUE}
                  /\ health'.calls[1][2] = health.instance_id
                  /\ \E i \in Homonyms : i.id = health.instance_id
          /\ (health'.pc = "terminate" /\ health.pc # "terminate")
               => /\ health.op = "destroy"
                  /\ \/ health.pc = "find" /\ health.force
                     \/ health.pc = "confirm" /\ ~health.force
                  /\ health'.instance_id # NoId
          /\ (health'.pc = "confirm" /\ health.pc # "confirm")
               => health.pc = "find" /\ ~health.force /\ health'.instance_id # NoId
          /\ Issued("wait instance-terminated")
               => /\ health.pc = "wait_terminated"
                  /\ health.calls = <<<<"terminate-instances", health.instance_id>>>>
                  /\ health'.calls[2][2] = health.instance_id
          /\ (health.pc = "confirm" /\ health'.answer = {FALSE})
               => /\ health'.pc = "done" /\ health'.outcome = "aborted"
                  /\ health'.calls = <<>>
                  /\ instances' = instances]_vars
    /\ [](health.answer = {FALSE}
            => /\ health.pc = "done" /\ health.outcome = "aborted"
               /\ ~health.force /\ health.calls = <<>>)
    /\ [](health.answer # {} => ~health.force)
    /\ [](health.outcome = "aborted" => health.answer = {FALSE})
    /\ [](health.pc = "wait_terminated"
            => health.calls = <<<<"terminate-instances", health.instance_id>>>>)
    /\ []((health.pc = "failed" /\ health.op = "destroy")
            => \A n \in 1..Len(health.calls) :
                 health.calls[n][1] = "wait instance-terminated" => health.err = "provider")
    /\ [](health.outcome = "terminated"
            => /\ health.pc = "done"
               /\ health.calls = <<<<"terminate-instances", health.instance_id>>,
                                    <<"wait instance-terminated", health.instance_id>>>>
               /\ \A i \in instances : i.id = health.instance_id => i.state = "terminated")

\* A destroy without --force, its prompt accepted, has terminated the
\* instance, waited and reported.
C31_Witness ==
    /\ health.op = "destroy" /\ health.pc = "done" /\ ~health.force
    /\ health.answer = {TRUE}
    /\ health.outcome = "terminated"
    /\ Len(health.calls) = 2
    /\ \E i \in instances : i.id = health.instance_id /\ i.state = "terminated"

\* ---------------------------------------------------------------- C32
\* The droplets of the command's cluster that carry the name it was given.
Twins == {d \in instances : d.Name = health.name /\ d.tag = droplet_cluster_tag(health.cluster)}

\* C32: when two droplets of the cluster carry the name, the lookup of
\* health, reboot, destroy and the wait loop fails instead of settling on
\* one of them.
C32_NeverPicksAmongSeveral ==
    [][(health.pc \in {"find", "wait"} /\ Cardinality(Twins) > 1 /\ health' # health)
         => health'.pc = "failed"]_vars

\* ---------------------------------------------------------------- C33
\* The level the verdict would have under another firewall posture.
LevelUnder(posture) ==
    summarize_health(health.instance_state, health.ec2_checks_pass,
                     [sg_port22 |-> posture,
                      send_ssh_public_key |-> health.send_ssh_public_key]).level

\* C33: the level is Ok exactly when the state is running, the checks are
\* Some(true) and the probe is Success; whether it is Ok is the same under
\* every firewall posture; and the level is Unknown exactly when the state
\* is running, the checks are None, the probe is not Success and the
\* posture is not closed.
C33_OkAndUnknownExactly ==
    Judged =>
        /\ Verdict.level = "Ok"
             <=> /\ health.instance_state = "running"
                 /\ health.ec2_checks_pass = Some(TRUE)
                 /\ health.send_ssh_public_key = "Success"
        /\ \A posture \in SgPort22Status :
             LevelUnder(posture) = "Ok" <=> Verdict.level = "Ok"
        /\ Verdict.level = "Unknown"
             <=> /\ health.instance_state = "running"
                 /\ health.ec2_checks_pass = None
                 /\ health.send_ssh_public_key # "Success"
                 /\ health.sg_port22 # "Closed"

\* Running, checks None, probe Failed, posture open-world: Unknown.
C33_Witness ==
    /\ Judged
    /\ health.instance_state = "running"
    /\ health.ec2_checks_pass = None
    /\ health.send_ssh_public_key = "Failed"
    /\ health.sg_port22 = "OpenWorld"
    /\ Verdict.level = "Unknown"

\* ---------------------------------------------------------------- C34
\* C34: in a completed `health` run, a probe outcome of Success or Failed
\* means the instance was running with a public address, a placement zone
\* and the local public key file in place; an instance that is not running
\* always gets probe Skipped with reason instance-not-running and no probe
\* call; and the verdict is the one of that state and that probe result.
C34_ProbeAgreesWithState ==
    health.pc = "done" =>
        /\ ProbeResult.send_ssh_public_key \in {"Success", "Failed"}
             => /\ health.instance_state = "running"
                /\ health.public_ip \in {Some("203.0.113.10")}
                /\ health.availability_zone # None
                /\ health.public_key_exists
                /\ health.sent
        /\ health.instance_state # "running"
             => /\ ProbeResult.send_ssh_public_key = "Skipped"
                /\ ProbeResult.send_ssh_public_key_reason = Some("instance-not-running")
                /\ ~ProbeResult.instance_running
                /\ ~health.sent
        /\ ProbeResult.instance_running <=> health.instance_state = "running"
        /\ health.summary = Some(summarize_health(health.instance_state,
                                                  health.ec2_checks_pass, ProbeResult))

\* A stopped instance with no public address: skipped as not running.
C34_Witness ==
    /\ health.pc = "done"
    /\ health.instance_state = "stopped"
    /\ health.public_ip = None
    /\ ProbeResult.send_ssh_public_key = "Skipped"
    /\ ProbeResult.send_ssh_public_key_reason = Some("instance-not-running")

\* ---------------------------------------------------------------- C35
\* The steps of `up` at which no ensure step has begun.
BeforeEnsure == {"idle", "banner", "dup_check", "done", "failed"}

\* C35: the duplicate-name check of `up` comes before every ensure step: a
\* run enters its first ensure step only from the check, and only when the
\* check found no live instance of the name; no step up to and including
\* the check changes anything at the provider; so a run that fails because
\* the name is taken has failed at the check, having made no mutating call.
C35_CheckBeforeEnsure ==
    /\ [][/\ (run[1].pc \in BeforeEnsure /\ run' # run) => provider' = provider
          /\ (run[1].pc \in BeforeEnsure /\ run'[1].pc \notin BeforeEnsure)
               => /\ run[1].pc = "dup_check" /\ run'[1].pc = "find_vpc"
                  /\ \A i \in Namesakes(1) : i.state = "terminated"
          /\ (run'[1].err = "instance name already exists" /\ run' # run)
               => /\ run[1].pc = "dup_check" /\ run'[1].pc = "failed"
                  /\ aborted'.pc = "dup_check"
                  /\ provider' = provider]_vars
    /\ [](run[1].err = "instance name already exists"
            => run[1].pc = "failed" /\ aborted.pc = "dup_check")

\* A second `up` of the name was refused at the check while the first
\* run's instance is running in the converged network.
C35_Witness ==
    /\ run[1].pc = "failed" /\ run[1].err = "instance name already exists"
    /\ aborted.pc = "dup_check"
    /\ \E i \in Namesakes(1) : i.state = "running"
    /\ Cardinality(vpcs) = 1 /\ Cardinality(instances) = 1

\* ---------------------------------------------------------------- C36
\* The live instances under one Name and Cluster.
Live(cl, nm) ==
    {i \in instances : i.Name = nm /\ i.Cluster = cl /\ i.state \in NON_TERMINATED_STATES}

\* C36: across sequential `up` runs, each of which may abort at any call,
\* at most one live instance exists per Name and Cluster; a run whose wait
\* for instance-running fails leaves the instance it launched in place,
\* and the next `up` of that name and cluster is refused at the duplicate
\* check, launching nothing, for as long as that instance is live.
C36_OneLivePerName ==
    /\ [](\A cl \in Clusters, nm \in Names : Cardinality(Live(cl, nm)) <= 1)
    /\ [][/\ (run[1].pc = "wait_running" /\ run'[1].pc = "failed")
               => /\ instances' = instances
                  /\ \E i \in Live(run[1].cluster, run[1].name) : i.id = run[1].instance_id
          /\ (/\ run[1].pc = "dup_check" /\ run' # run
              /\ aborted = [cluster |-> run[1].cluster, pc |-> "wait_running"]
              /\ Live(run[1].cluster, run[1].name) # {})
               => /\ run'[1].pc = "failed"
                  /\ run'[1].err \in {"instance name already exists", "provider"}
                  /\ provider' = provider]_vars

\* The rerun after a failed wait is at its duplicate check, the instance
\* of the failed run still pending.
C36_Witness ==
    /\ run[1].pc = "dup_check" /\ runs = 2
    /\ aborted = [cluster |-> run[1].cluster, pc |-> "wait_running"]
    /\ \E i \in Live(run[1].cluster, run[1].name) : i.state = "pending"

\* ---------------------------------------------------------------- C37
\* A rule covering port 22 that names no source: no range with a CIDR, no
\* pair with a group id, no prefix list with an id.
Sourceless(rule) == MatchesPort22(rule) /\ ~ConcreteSource(rule)

\* The groups as reported, the source-less rules taken out of their lists.
WithoutSourceless(security_groups) ==
    [g \in 1..Len(security_groups) |->
       [ip_permissions |->
          {SelectSeq(rules, LAMBDA rule : ~Sourceless(rule)) :
             rules \in security_groups[g].ip_permissions}]]

\* C37: a rule covering port 22 that names no source counts for neither
\* open-world nor restricted: the classification is what it would be
\* without such rules; and a non-empty group list whose covering rules are
\* all of this kind, or whose groups carry no rule list, is closed.
C37_SourcelessRulesCountForNothing ==
    Classified =>
        LET groups == health.security_groups
            covering == {rule \in AllRules(groups) : MatchesPort22(rule)}
        IN  /\ classify_sg_port_22(WithoutSourceless(groups)) = Classification
            /\ (Len(groups) > 0 /\ \A rule \in covering : Sourceless(rule))
                 => Classification = "Closed"

\* Closed with a group that has no rule list and a group whose only rule
\* covers port 22 without a source.
C37_Witness ==
    /\ Classified
    /\ Classification = "Closed"
    /\ Len(health.security_groups) = 2
    /\ health.security_groups[1].ip_permissions = None
    /\ \E rule \in AllRules(health.security_groups) : Sourceless(rule)

\* ---------------------------------------------------------------- C38
\* C38: a prune that finds no VPC tagged for the cluster ends there with
\* success ("nothing to prune"), having issued no delete call and changed
\* nothing at the provider; a prune removes a keypair only in an invocation
\* that found the VPC and has issued delete-vpc; so a keypair (or any other
\* tagged resource) left behind without the VPC survives every later prune.
C38_NoVpcNoDelete ==
    /\ [][/\ (/\ prune.pc = "find_vpc" /\ prune' # prune
               /\ TaggedFor(vpcs, prune.cluster, "vpc") = {})
               => /\ provider' = provider
                  /\ prune'.calls = <<>>
                  /\ \/ prune'.pc = "done" /\ prune'.outcome = "nothing to prune"
                     \/ prune'.pc = "failed" /\ prune'.err = "provider"
          /\ (prune' # prune /\ keys' # keys)
               => /\ prune.pc = "delete-key-pair" /\ prune.vpc_id # NoId
                  /\ \E n \in 1..Len(prune.calls) : prune.calls[n] = "delete-vpc"]_vars
    /\ [](prune.outcome = "nothing to prune"
            => prune.pc = "done" /\ prune.calls = <<>> /\ ~prune.prompted)

\* A second prune with --force has reported "nothing to prune" with the
\* keypair still in place, nobody else having touched the provider.
C38_Witness ==
    /\ prune.pc = "done" /\ prune.outcome = "nothing to prune"
    /\ prune.force /\ prune.count = 2 /\ external = 0
    /\ TaggedFor(vpcs, prune.cluster, "vpc") = {}
    /\ resource_name(prune.cluster, "key") \in keys

\* ---- two `up` runs of one cluster at once
\* The steps of run_aws_up, no call failing but for what the provider's
\* state makes it refuse.
RaceStep(r) ==
    \/ PrintBanner(r)
    \/ ensure_no_duplicate_instance(r)
    \/ EnsureVpcFind(r)
    \/ EnsureVpcCreate(r)
    \/ EnsureSubnetFind(r)
    \/ EnsureSubnetCreate(r)
    \/ EnsureSubnetModify(r)
    \/ EnsureIgwFind(r)
    \/ EnsureIgwCreate(r)
    \/ EnsureIgwAttach(r)
    \/ EnsureRtFind(r)
    \/ EnsureRtCreate(r)
    \/ ensure_default_route(r)
    \/ ensure_route_table_association(r)
    \/ EnsureSgFind(r)
    \/ EnsureSgCreate(r)
    \/ authorize_sg_ingress(r)
    \/ key_pair_exists(r)
    \/ ensure_key_pair(r)
    \/ resolve_ami_id(r)
    \/ launch_instance(r)
    \/ wait_for_instance_running(r)
    \/ fetch_instance_public_ip(r)
    \/ print_aws_status_and_refresh_ssh_config(r)

Resources(kind) ==
    CASE kind = "vpc" -> vpcs
      [] kind = "subnet" -> subnets
      [] kind = "igw" -> igws
      [] kind = "rt" -> rts
      [] kind = "sg" -> sgs

DeleteCall(kind) ==
    CASE kind = "vpc" -> "delete-vpc"
      [] kind = "subnet" -> "delete-subnet"
      [] kind = "igw" -> "delete-internet-gateway"
      [] kind = "rt" -> "delete-route-table"
      [] kind = "sg" -> "delete-security-group"

\* The resources of a kind tagged for the cluster, when there are several.
Duplicates(cluster, kind) ==
    IF Cardinality(TaggedFor(Resources(kind), cluster, kind)) > 1
    THEN TaggedFor(Resources(kind), cluster, kind) ELSE {}

RaceOver == \A r \in Runners : run[r].pc \in {"done", "failed"}

\* Two operators each start one `up` of cluster a, at any moment of the
\* other's run.
RaceStart(r, nm) ==
    /\ run[r].pc = "idle"
    /\ UpStart(r, "a", nm, MaxRuns)

\* The name of later `up` runs: one no instance of the two runs carries.
LaterNames == {"n2"}

\* An `up` of the cluster after both have ended, before the instances are
\* terminated and the cluster pruned.
LaterStart(nm) ==
    /\ RaceOver
    /\ prune.pc = "idle"
    /\ \A i \in instances : i.state # "terminated"
    /\ UpStart(1, "a", nm, MaxRuns)

\* Somebody terminates the cluster's instances by hand.
InstancesTerminated ==
    /\ RaceOver
    /\ prune.pc = "idle"
    /\ \E i \in instances : i.state # "terminated"
    /\ instances' = {[i EXCEPT !.state = "terminated"] : i \in instances}
    /\ UNCHANGED <<vpcs, subnets, igws, rts, sgs, keys, nextId,
                   run, runs, ensured, external, aborted, health, prune>>

\* The one prune of the cluster, once its instances are gone.
PruneAfterRace(force) ==
    /\ RaceOver
    /\ \A i \in instances : i.state = "terminated"
    /\ prune.pc = "idle"
    /\ PruneStart("a", force, MaxPrunes)

\* Somebody deletes one of several resources of a kind by hand, before the
\* instances are terminated and the cluster pruned.
RemoveDuplicate(kind) ==
    /\ RaceOver
    /\ prune.pc = "idle"
    /\ \A i \in instances : i.state # "terminated"
    /\ external < MaxExternal
    /\ external' = external + 1
    /\ \E x \in Duplicates("a", kind) :
         /\ Response(DeleteCall(kind), x.id, NoId) = "ok"
         /\ Apply(DeleteCall(kind), x.id, NoId)
    /\ UNCHANGED <<run, runs, ensured, aborted, health, prune>>

RaceNext ==
    \/ \E r \in Runners, nm \in Names : RaceStart(r, nm)
    \/ \E nm \in LaterNames : LaterStart(nm)
    \/ \E r \in Runners : RaceStep(r)
    \/ InstancesTerminated
    \/ \E force \in BOOLEAN : PruneAfterRace(force)
    \/ PruneStep
    \/ \E kind \in Kinds : RemoveDuplicate(kind)

RaceSpec == Init /\ [][RaceNext]_vars

\* ---------------------------------------------------------------- C39
FindPc(kind) == "find_" \o kind

Ambiguity(kind) ==
    CASE kind = "vpc" -> "multiple VPCs found"
      [] kind = "subnet" -> "multiple subnets found"
      [] kind = "igw" -> "multiple internet gateways found"
      [] kind = "rt" -> "multiple route tables found"
      [] kind = "sg" -> "multiple security groups found"

\* The steps of `up` that follow the five ensure steps of the network.
AfterNetwork ==
    {"key_exists", "import_key", "resolve_ami", "launch", "wait_running", "fetch_ip", "print_status"}

\* C39: once two `up` runs of a cluster have both created a resource of a
\* kind, neither is taken for the cluster's: every find of that kind, in
\* `up`, in the status listing that ends `up` and in `prune`, fails as
\* ambiguous with nothing changed at the provider; an `up` started after
\* the two runs gets past the network steps only when no kind is
\* duplicated, so it launches nothing while one is; and a kind stops being
\* duplicated only by a removal made by hand.
C39_DuplicateNeverAdopted ==
    /\ [][\A kind \in Kinds :
            /\ \A r \in Runners :
                 (/\ run[r].pc = FindPc(kind) /\ run'[r] # run[r]
                  /\ Duplicates(run[r].cluster, kind) # {})
                 => /\ run'[r].pc = "failed" /\ run'[r].err = Ambiguity(kind)
                    /\ provider' = provider
            /\ (/\ prune.pc = FindPc(kind) /\ prune' # prune
                /\ Duplicates(prune.cluster, kind) # {})
               => /\ prune'.pc = "failed"
                  /\ prune'.err \in {Ambiguity(kind), "provider"}
                  /\ provider' = provider
            /\ (Duplicates("a", kind) # {} /\ Duplicates("a", kind)' = {})
               => external' = external + 1]_vars
    /\ [][\A r \in Runners :
            (/\ run[r].pc = "print_status" /\ run'[r] # run[r]
             /\ Duplicates(run[r].cluster, "vpc") \cup Duplicates(run[r].cluster, "sg") # {})
            => /\ run'[r].pc = "failed"
               /\ run'[r].err \in {Ambiguity("vpc"), Ambiguity("sg")}]_vars
    /\ []((runs > Cardinality(Runners) /\ run[1].pc \in AfterNetwork)
            => \A kind \in Kinds : Duplicates("a", kind) = {})

\* Both runs created a VPC, and the `up` started after them has failed on
\* the two VPCs, nobody having removed anything.
C39_Witness ==
    /\ runs > Cardinality(Runners) /\ external = 0
    /\ run[1].pc = "failed" /\ run[1].err = "multiple VPCs found"
    /\ aborted.pc = "find_vpc"
    /\ Cardinality(Duplicates("a", "vpc")) = 2

====
